---------------------------- MODULE Spec2Model ----------------------------
(***************************************************************************)
(* A model of notes-tui: the run loop of App (app.py), the Repository     *)
(* (storage/repository.py), the Screen's raw-mode / alternate-screen /   *)
(* frame-buffer state (tui/screen.py), the Renderer's sequence of screen  *)
(* calls (tui/renderer.py) and the InputHandler's key decoder             *)
(* (tui/input_handler.py).                                                *)
(*                                                                         *)
(* Python objects are records; a method that mutates self is an operator  *)
(* from the world record w = [app, repo, screen, term, log] to the world  *)
(* after the call, so a handler is the composition of the calls it makes. *)
(* Text is a sequence of characters, a character a one-token string; the  *)
(* newline character is the token "NL".  Note and notebook objects are    *)
(* shared by reference in the source (App.editing_note and                *)
(* App.search_results alias elements of Repository._notes), so the model  *)
(* holds their ids and reads the fields through the repository.           *)
(* Timestamps are only ever compared (sorted) by the program: the model   *)
(* keeps their order, as ranks.  Note.created_at and Notebook.created_at /*)
(* updated_at are never read by the code modelled here and are left out.  *)
(***************************************************************************)
EXTENDS Integers, Sequences, FiniteSets, TLC

VARIABLES
    app,      \* the App object's fields (app.py:60-94)
    repo,     \* the Repository: _notebooks, _notes, and the data file
    screen,   \* the Screen object: _old_settings, _buffering, _buffer, width, height
    term,     \* the terminal: termios settings, alternate screen, cursor, stdout
    log,      \* what the last step did: event, saves, stdout writes, exception
    pc,       \* position of App.run (app.py:96-110)
    keys,     \* number of key events the user has pressed so far
    script,   \* key events still to be fed (scenario specification only)
    dec       \* the InputHandler's state inside read_key, and the input stream

vars == <<app, repo, screen, term, log, pc, keys, script, dec>>

----------------------------------------------------------------------------
(* Bounds of the model *)

\* a note (a notebook) is created only while the repository holds fewer
\* notes (notebooks) than this
MaxNotes == 2
\* most characters the editor buffer may hold (newlines included)
MaxText == 2
\* most characters typed into the search query or a prompt buffer
MaxInput == 1
\* most key events of one session
MaxKeys == 5

----------------------------------------------------------------------------
(* Sequences and text *)

Max(a, b) == IF a >= b THEN a ELSE b
Min(a, b) == IF a <= b THEN a ELSE b

Range(s) == {s[i] : i \in 1..Len(s)}

\* s[lo:hi] of Python for lo, hi >= 0: 0-based, hi exclusive, and an index
\* past the end is taken as the end
Slice(s, lo, hi) == SubSeq(s, Min(lo, Len(s)) + 1, Min(hi, Len(s)))

\* str.split("\n") of a text: always at least one piece
RECURSIVE SplitNL(_, _)
SplitNL(text, cur) ==
    IF text = <<>> THEN <<cur>>
    ELSE IF Head(text) = "NL" THEN <<cur>> \o SplitNL(Tail(text), <<>>)
    ELSE SplitNL(Tail(text), Append(cur, Head(text)))

\* "\n".join(lines)
RECURSIVE JoinNL(_)
JoinNL(lines) ==
    IF lines = <<>> THEN <<>>
    ELSE IF Len(lines) = 1 THEN lines[1]
    ELSE lines[1] \o <<"NL">> \o JoinNL(Tail(lines))

\* str.lower() on the characters of the model
Lower(c) ==
    CASE c = "A" -> "a"   [] c = "B" -> "b"   [] c = "C" -> "c"
      [] c = "D" -> "d"   [] c = "F" -> "f"   [] c = "H" -> "h"
      [] c = "N" -> "n"   [] c = "O" -> "o"   [] c = "P" -> "p"
      [] c = "Q" -> "q"   [] c = "R" -> "r"   [] c = "S" -> "s"
      [] c = "T" -> "t"   [] c = "Y" -> "y"
      [] OTHER -> c

\* str.isprintable() on one character: U+00A0 (a separator other than the
\* ASCII space) and the C1 controls are not printable
IsPrintableChar(c) == c \notin {"NBSP", "NL"}

\* KeyEvent.is_printable (input_handler.py:74-77)
is_printable(ev) == ev.key = "CHAR" /\ ev.char # "" /\ IsPrintableChar(ev.char)

KeyEvent(k) == [key |-> k, char |-> ""]
CharEvent(c) == [key |-> "CHAR", char |-> c]

----------------------------------------------------------------------------
(* Note and Notebook (models/note.py, models/notebook.py) *)

DefaultId == "default"

\* Notebook.create_default (notebook.py:53-56)
create_default == [id |-> DefaultId, name |-> <<"D">>]

\* Note(...) (note.py:23-32): the dataclass constructor
Note(id, title, content, notebook_id, now) ==
    [id |-> id, title |-> title, content |-> content,
     notebook_id |-> notebook_id, updated_at |-> now]

\* Note.update_content (note.py:34-38)
update_content(note, title, content, now) ==
    [note EXCEPT !.title = title, !.content = content, !.updated_at = now]

\* Note.move_to_notebook (note.py:40-43)
move_to_notebook(note, notebook_id, now) ==
    [note EXCEPT !.notebook_id = notebook_id, !.updated_at = now]

\* Note.to_dict / Notebook.to_dict: the JSON object of a record.  The
\* datetime is written by isoformat() and read back by fromisoformat(),
\* which keep the order of timestamps, the only thing the model holds.
note_to_dict(note) ==
    [id |-> note.id, title |-> note.title, content |-> note.content,
     notebook_id |-> note.notebook_id, updated_at |-> note.updated_at]

notebook_to_dict(nb) == [id |-> nb.id, name |-> nb.name]

\* Note.from_dict / Notebook.from_dict
note_from_dict(d) ==
    Note(d.id, d.title, d.content, d.notebook_id, d.updated_at)

notebook_from_dict(d) == [id |-> d.id, name |-> d.name]

\* s.lower() of a text
LowerText(t) == [i \in 1..Len(t) |-> Lower(t[i])]

\* q in t, for texts: q is a contiguous piece of t
Contains(t, q) ==
    \E i \in 0..(Len(t) - Len(q)) : Slice(t, i, i + Len(q)) = q

\* a match that compares the letters as they are written
matches_search_exact(note, query) ==
    Contains(note.title, query) \/ Contains(note.content, query)

\* Note.matches_search (note.py:68-74)
matches_search(note, query) ==
    \/ Contains(LowerText(note.title), LowerText(query))
    \/ Contains(LowerText(note.content), LowerText(query))

----------------------------------------------------------------------------
(* Repository (storage/repository.py) *)

\* datetime.now(): later than every timestamp held in memory or on disk
Now(r) ==
    LET ts == {r.notes[i].updated_at : i \in 1..Len(r.notes)}
              \cup {r.disk.notes[i].updated_at : i \in 1..Len(r.disk.notes)}
    IN  IF ts = {} THEN 1 ELSE 1 + (CHOOSE t \in ts : \A u \in ts : u <= t)

\* uuid4 of Note.id (note.py:27): an id no live object carries
FreshNoteId(r, held) ==
    LET used == {r.notes[i].id : i \in 1..Len(r.notes)} \cup held
    IN  CHOOSE n \in 1..(Cardinality(used) + 1) : n \notin used

NotebookIdPool == <<"nb1", "nb2", "nb3", "nb4", "nb5", "nb6">>

\* uuid4 of Notebook.id (notebook.py:23)
FreshNotebookId(r) ==
    LET used == {r.notebooks[i].id : i \in 1..Len(r.notebooks)}
    IN  NotebookIdPool[CHOOSE n \in 1..Len(NotebookIdPool) :
            /\ NotebookIdPool[n] \notin used
            /\ \A m \in 1..(n - 1) : NotebookIdPool[m] \in used]

\* sorted(notes, key=lambda n: n.updated_at, reverse=True): a stable sort,
\* notes of equal timestamp keep their order
RECURSIVE SortedByUpdatedDesc(_)
SortedByUpdatedDesc(notes) ==
    IF notes = <<>> THEN <<>>
    ELSE LET rest == SortedByUpdatedDesc(SubSeq(notes, 1, Len(notes) - 1))
             x == notes[Len(notes)]
             \* x is the last of its equals: it goes after every note that
             \* is at least as recent
             k == Cardinality({i \in 1..Len(rest) : rest[i].updated_at >= x.updated_at})
         IN  SubSeq(rest, 1, k) \o <<x>> \o SubSeq(rest, k + 1, Len(rest))

\* Repository._save_data, called by save (repository.py:59-62, 82-88)
save(w) ==
    [w EXCEPT !.repo.disk =
                  [notebooks |-> [i \in 1..Len(w.repo.notebooks) |->
                                      notebook_to_dict(w.repo.notebooks[i])],
                   notes |-> [i \in 1..Len(w.repo.notes) |->
                                  note_to_dict(w.repo.notes[i])]],
              !.log.saves = Append(@, w.app.state)]

\* a load that takes the notebooks of the file as they are
load_plain(data) ==
    [notebooks |-> [i \in 1..Len(data.notebooks) |->
                        notebook_from_dict(data.notebooks[i])],
     notes |-> [i \in 1..Len(data.notes) |-> note_from_dict(data.notes[i])],
     disk |-> data]

\* Repository.load (repository.py:64-80), on the data of the file
load(data) ==
    LET nbs == [i \in 1..Len(data.notebooks) |-> notebook_from_dict(data.notebooks[i])]
    IN  [notebooks |-> IF \E i \in 1..Len(nbs) : nbs[i].id = DefaultId
                       THEN nbs
                       ELSE <<create_default>> \o nbs,
         notes |-> [i \in 1..Len(data.notes) |-> note_from_dict(data.notes[i])],
         disk |-> data]

\* Repository.get_all_notebooks (repository.py:92-94)
get_all_notebooks(r) == r.notebooks

\* Repository.get_note_count_for_notebook (repository.py:133-135)
get_note_count_for_notebook(r, notebook_id) ==
    Cardinality({i \in 1..Len(r.notes) : r.notes[i].notebook_id = notebook_id})

\* Repository.get_notes_by_notebook (repository.py:143-146)
get_notes_by_notebook(r, notebook_id) ==
    LET InNb(n) == n.notebook_id = notebook_id
    IN  SortedByUpdatedDesc(SelectSeq(r.notes, InNb))

\* Repository.get_note (repository.py:148-153); the model reads a held
\* note object through its id
get_note(r, note_id) ==
    LET i == CHOOSE i \in 1..Len(r.notes) : r.notes[i].id = note_id
    IN  r.notes[i]

HasNote(r, note_id) == \E i \in 1..Len(r.notes) : r.notes[i].id = note_id

\* Repository.create_notebook (repository.py:103-108)
create_notebook(w, name) ==
    save([w EXCEPT !.repo.notebooks =
                       Append(@, [id |-> FreshNotebookId(w.repo), name |-> name])])

\* Repository.update_notebook (repository.py:110-116): the first notebook
\* of that id is replaced by the object passed
update_notebook(w, notebook) ==
    LET hits == {i \in 1..Len(w.repo.notebooks) :
                     w.repo.notebooks[i].id = notebook.id}
    IN  IF hits = {} THEN w
        ELSE LET i == CHOOSE i \in hits : \A j \in hits : i <= j
             IN  save([w EXCEPT !.repo.notebooks[i] = notebook])

\* Repository.create_note (repository.py:155-161); the new note is the
\* last of _notes
create_note(w, title, content, notebook_id) ==
    LET held == (IF w.app.editing_note = 0 THEN {} ELSE {w.app.editing_note})
                \cup Range(w.app.search_results)
        note == Note(FreshNoteId(w.repo, held), title, content, notebook_id, Now(w.repo))
    IN  save([w EXCEPT !.repo.notes = Append(@, note)])

\* Repository.update_note (repository.py:163-169): the note object passed
\* is the element of _notes itself, already mutated in place
update_note(w, note_id) ==
    IF HasNote(w.repo, note_id) THEN save(w) ELSE w

\* Repository.delete_note (repository.py:171-178); log.ret is the value
\* the call returns
delete_note(w, note_id) ==
    LET Keep(n) == n.id # note_id
        kept == SelectSeq(w.repo.notes, Keep)
    IN  IF Len(kept) < Len(w.repo.notes)
        THEN save([w EXCEPT !.repo.notes = kept, !.log.ret = TRUE])
        ELSE [w EXCEPT !.repo.notes = kept, !.log.ret = FALSE]

\* the loop of delete_notebook (repository.py:123-126): each note of the
\* notebook is moved in the order of _notes, each at a later now()
RECURSIVE MoveNotes(_, _, _)
MoveNotes(notes, notebook_id, now) ==
    IF notes = <<>> THEN <<>>
    ELSE IF Head(notes).notebook_id = notebook_id
         THEN <<move_to_notebook(Head(notes), DefaultId, now)>>
              \o MoveNotes(Tail(notes), notebook_id, now + 1)
         ELSE <<Head(notes)>> \o MoveNotes(Tail(notes), notebook_id, now)

\* a delete_notebook without the test for the default notebook
delete_notebook_any(w, notebook_id) ==
    LET Keep(nb) == nb.id # notebook_id
    IN  save([w EXCEPT
                !.repo.notes = MoveNotes(@, notebook_id, Now(w.repo)),
                !.repo.notebooks = SelectSeq(@, Keep),
                !.log.ret = TRUE])

\* a delete_notebook that deletes the notes of the notebook with it
delete_notebook_cascade(w, notebook_id) ==
    IF notebook_id = DefaultId THEN [w EXCEPT !.log.ret = FALSE]
    ELSE LET Keep(nb) == nb.id # notebook_id
             Other(n) == n.notebook_id # notebook_id
         IN  save([w EXCEPT
                     !.repo.notes = SelectSeq(@, Other),
                     !.repo.notebooks = SelectSeq(@, Keep),
                     !.log.ret = TRUE])

\* a delete_notebook that leaves the notes of the notebook where they are
delete_notebook_orphan(w, notebook_id) ==
    IF notebook_id = DefaultId THEN [w EXCEPT !.log.ret = FALSE]
    ELSE LET Keep(nb) == nb.id # notebook_id
         IN  save([w EXCEPT
                     !.repo.notebooks = SelectSeq(@, Keep),
                     !.log.ret = TRUE])

\* Repository.delete_notebook (repository.py:118-131); log.ret is the
\* value the call returns
delete_notebook(w, notebook_id) ==
    IF notebook_id = DefaultId THEN [w EXCEPT !.log.ret = FALSE]
    ELSE LET Keep(nb) == nb.id # notebook_id
         IN  save([w EXCEPT
                     !.repo.notes = MoveNotes(@, notebook_id, Now(w.repo)),
                     !.repo.notebooks = SelectSeq(@, Keep),
                     !.log.ret = TRUE])

\* Repository.search_notes (repository.py:180-185)
search_notes(r, query) ==
    IF query = <<>> THEN <<>>
    ELSE LET Match(n) == matches_search(n, query)
         IN  SortedByUpdatedDesc(SelectSeq(r.notes, Match))

----------------------------------------------------------------------------
(* Screen (tui/screen.py) *)

\* the least of a set of integers and 1
Least(S) == IF \E n \in S : n < 1 THEN CHOOSE n \in S : \A m \in S : n <= m ELSE 1

\* one sys.stdout.write of the Screen: how it was made, the control items
\* it carries and the least column and row of its cursor positionings
\* (1 without any); SHOW / HIDE move the terminal's cursor visibility
StdoutWrite(w, via, items) ==
    LET vis == {i \in 1..Len(items) : items[i].op \in {"show_cursor", "hide_cursor"}}
        last == CHOOSE i \in vis : \A j \in vis : j <= i
        pos == {i \in 1..Len(items) : items[i].op \in {"write_at", "move_cursor"}}
    IN  [w EXCEPT !.log.out = Append(@, [via |-> via, n |-> Len(items),
                                         min_x |-> Least({items[i].x : i \in pos}),
                                         min_y |-> Least({items[i].y : i \in pos})]),
                  !.term.cursor = IF vis = {} THEN @
                                  ELSE items[last].op = "show_cursor"]

\* Screen.update_size (screen.py:85-87), sz the answer of get_size
update_size(w, sz) == [w EXCEPT !.screen.width = sz[1], !.screen.height = sz[2]]

\* Screen.enter_raw_mode (screen.py:89-93)
enter_raw_mode(w) ==
    IF w.term.isatty
    THEN [w EXCEPT !.screen.old_settings = w.term.settings,
                   !.term.settings = "raw"]
    ELSE w

\* a variant of exit_raw_mode that sets the usual line mode instead of the
\* saved settings
exit_raw_mode_cooked(w) ==
    IF w.screen.old_settings # "None"
    THEN [w EXCEPT !.term.settings = "cooked",
                   !.screen.old_settings = "None"]
    ELSE w

\* Screen.exit_raw_mode (screen.py:95-99)
exit_raw_mode(w) ==
    IF w.screen.old_settings # "None"
    THEN [w EXCEPT !.term.settings = w.screen.old_settings,
                   !.screen.old_settings = "None"]
    ELSE w

\* Screen.enter_alternate_screen (screen.py:101-104): written to stdout
\* directly, whatever the frame buffer holds
enter_alternate_screen(w) ==
    [w EXCEPT !.term.alt = TRUE,
              !.log.out = Append(@, [via |-> "direct", n |-> 1,
                                     min_x |-> 1, min_y |-> 1])]

\* Screen.exit_alternate_screen (screen.py:106-109)
exit_alternate_screen(w) ==
    [w EXCEPT !.term.alt = FALSE,
              !.log.out = Append(@, [via |-> "direct", n |-> 1,
                                     min_x |-> 1, min_y |-> 1])]

\* Screen.begin_frame (screen.py:113-118)
begin_frame(w) ==
    [w EXCEPT !.screen.buffer = <<[op |-> "home", x |-> 1, y |-> 1]>>,
              !.screen.buffering = TRUE]

\* Screen.end_frame (screen.py:120-129)
end_frame(w) ==
    IF w.screen.buffering
    THEN [StdoutWrite(w, "flush", w.screen.buffer) EXCEPT
              !.screen.buffer = <<>>, !.screen.buffering = FALSE]
    ELSE w

\* Screen._write_to_buffer (screen.py:131-137)
write_to_buffer(w, item) ==
    IF w.screen.buffering
    THEN [w EXCEPT !.screen.buffer = Append(@, item)]
    ELSE StdoutWrite(w, "direct", <<item>>)

\* the calls a renderer makes on the Screen, as data
WriteAt(x, y) == [op |-> "write_at", x |-> x, y |-> y]
MoveCursor(x, y) == [op |-> "move_cursor", x |-> x, y |-> y]
ShowCursor == [op |-> "show_cursor", x |-> 1, y |-> 1]
HideCursor == [op |-> "hide_cursor", x |-> 1, y |-> 1]
BeginFrame == [op |-> "begin_frame", x |-> 1, y |-> 1]
EndFrame == [op |-> "end_frame", x |-> 1, y |-> 1]

\* Screen.hide_cursor / show_cursor / move_cursor / write_at
\* (screen.py:149-167), and begin_frame / end_frame, by the call made
screen_call(w, c) ==
    CASE c.op = "begin_frame" -> begin_frame(w)
      [] c.op = "end_frame" -> end_frame(w)
      [] OTHER -> write_to_buffer(w, c)

\* the calls cs made one after the other; an exception ends them
RECURSIVE screen_calls(_, _)
screen_calls(w, cs) ==
    IF cs = <<>> THEN w
    ELSE LET w1 == screen_call(w, Head(cs))
         IN  IF w1.log.raised THEN w1 ELSE screen_calls(w1, Tail(cs))

hide_cursor(w) == screen_call(w, HideCursor)
show_cursor(w) == screen_call(w, ShowCursor)

\* Screen.draw_box (screen.py:174-203): top border, sides, bottom border
draw_box(x, y, width, height) ==
    <<WriteAt(x, y)>>
    \o [i \in 1..(height - 2) |-> WriteAt(x, y + i)]
    \o <<WriteAt(x, y + height - 1)>>

----------------------------------------------------------------------------
(* Renderer (tui/renderer.py): the Screen calls of each render function,  *)
(* in order, for a terminal of width wd and height ht                     *)

\* the "clear all lines" loop (renderer.py:57-59, 264-266, 328-330)
ClearRows(ht) == [y \in 1..ht |-> WriteAt(1, y)]

\* Renderer._render_notebooks_panel (renderer.py:111-162)
render_notebooks_panel(x, y, width, height, n_notebooks) ==
    LET box_y == y + 1
        box_height == Min(n_notebooks + 2, height - 3)
        shown == Min(n_notebooks, Max(0, box_height - 2))
        hint_y == box_y + box_height + 1
    IN  <<WriteAt(x, y)>>
        \o draw_box(x, box_y, width - 1, box_height)
        \o [i \in 1..shown |-> WriteAt(x + 1, box_y + i)]
        \o (IF hint_y < y + height THEN <<WriteAt(x, hint_y)>> ELSE <<>>)

\* Renderer._render_notes_panel (renderer.py:164-225)
render_notes_panel(x, y, width, height, n_notes) ==
    LET box_y == y + 1
        box_height == height - 4
        shown == Min(n_notes, Max(0, box_height - 2))
        hint_y == box_y + box_height + 1
    IN  <<WriteAt(x, y)>>
        \o draw_box(x, box_y, width - 1, box_height)
        \o (IF n_notes = 0 THEN <<WriteAt(x + 2, box_y + 2)>>
            ELSE [i \in 1..shown |-> WriteAt(x + 1, box_y + i)])
        \o (IF hint_y < y + height THEN <<WriteAt(x, hint_y)>> ELSE <<>>)

\* Renderer.render_main_view (renderer.py:40-94), after update_size
render_main_view(wd, ht, n_notebooks, n_notes) ==
    LET sidebar_width == Min(28, wd \div 4)
        main_width == wd - sidebar_width - 1
        content_height == ht - 4
    IN  <<BeginFrame>>
        \o ClearRows(ht)
        \o <<WriteAt(1, 1)>>
        \o render_notebooks_panel(1, 2, sidebar_width, content_height, n_notebooks)
        \o render_notes_panel(sidebar_width + 1, 2, main_width, content_height, n_notes)
        \o <<WriteAt(1, ht)>>
        \o <<EndFrame>>

\* Renderer.render_editor (renderer.py:249-312), after update_size
render_editor(wd, ht, cursor_line, cursor_col, scroll_offset) ==
    LET content_start_y == 6
        content_height == ht - content_start_y - 2
        display_line == cursor_line - scroll_offset
    IN  <<BeginFrame>>
        \o ClearRows(ht)
        \o <<WriteAt(1, 1), WriteAt(3, 3), WriteAt(3, 4)>>
        \o [i \in 1..content_height |-> WriteAt(3, content_start_y + i - 1)]
        \o <<WriteAt(1, ht), ShowCursor>>
        \o (IF 0 <= display_line /\ display_line < content_height
            THEN <<MoveCursor(3 + cursor_col, content_start_y + display_line)>>
            ELSE <<>>)
        \o <<EndFrame>>

\* the result rows of render_search (renderer.py:352-382): a title line
\* and a preview line per result, while result_y stays inside the box
RECURSIVE SearchRows(_, _, _)
SearchRows(n, result_y, limit) ==
    IF n = 0 \/ result_y >= limit THEN <<>>
    ELSE <<WriteAt(4, result_y), WriteAt(6, result_y + 1)>>
         \o SearchRows(n - 1, result_y + 3, limit)

\* Renderer.render_search (renderer.py:314-393), after update_size
render_search(wd, ht, query, n_results) ==
    LET box_y == 7
        box_height == Min(n_results * 3 + 2, ht - box_y - 3)
    IN  <<BeginFrame>>
        \o ClearRows(ht)
        \o <<WriteAt(1, 1), WriteAt(3, 3), WriteAt(3, 4)>>
        \o (IF n_results > 0
            THEN <<WriteAt(3, 6)>>
                 \o draw_box(3, box_y, wd - 6, box_height)
                 \o SearchRows(n_results, box_y + 1, box_y + box_height - 1)
            ELSE <<WriteAt(3, 6)>>)
        \o <<WriteAt(3, ht - 1)>>
        \o <<EndFrame>>

\* Renderer.render_help (renderer.py:395-444), after update_size: a box of
\* 52 x 26, 23 of the 24 help lines, and the close hint of 24 characters
render_help(wd, ht) ==
    LET dialog_width == 52
        dialog_height == 26
        x == (wd - dialog_width) \div 2
        y == (ht - dialog_height) \div 2
    IN  draw_box(x, y, dialog_width, dialog_height)
        \o [i \in 1..Min(24, dialog_height - 3) |-> WriteAt(x + 2, y + i)]
        \o <<WriteAt(x + (dialog_width - 24) \div 2, y + dialog_height - 2)>>

\* Renderer.render_confirm_dialog (renderer.py:446-458); the options text
\* "[y/n]" has 5 characters
render_confirm_dialog(wd, ht, message_len) ==
    LET dialog_width == Max(message_len + 12, 44)
        dialog_height == 5
        x == (wd - dialog_width) \div 2
        y == (ht - dialog_height) \div 2
    IN  draw_box(x, y, dialog_width, dialog_height)
        \o <<WriteAt(x + 2, y + 2), WriteAt(x + dialog_width - 5 - 3, y + 2)>>

\* Renderer.render_input_dialog (renderer.py:460-474)
render_input_dialog(wd, ht, prompt_len, value_len) ==
    LET dialog_width == Max(prompt_len + 24, 54)
        dialog_height == 5
        x == (wd - dialog_width) \div 2
        y == (ht - dialog_height) \div 2
    IN  draw_box(x, y, dialog_width, dialog_height)
        \o <<WriteAt(x + 2, y + 2), ShowCursor,
             MoveCursor(x + prompt_len + 7 + value_len, y + 2)>>

----------------------------------------------------------------------------
(* App (app.py): the editor helpers *)

\* an uncaught exception leaves the handler: the rest of it is not run
Raised(w) == [w EXCEPT !.log.raised = TRUE]

\* a note object mutated in place through a reference the App holds: the
\* element of Repository._notes of that id, if it is still there
MutateNote(w, note_id, upd) ==
    [w EXCEPT !.repo.notes =
        [i \in 1..Len(@) |-> IF @[i].id = note_id THEN upd[@[i]] ELSE @[i]]]

\* App._adjust_scroll (app.py:529-535)
adjust_scroll(w) ==
    LET visible_height == w.screen.height - 8
    IN  IF w.app.cursor_line < w.app.scroll_offset
        THEN [w EXCEPT !.app.scroll_offset = w.app.cursor_line]
        ELSE IF w.app.cursor_line >= w.app.scroll_offset + visible_height
        THEN [w EXCEPT !.app.scroll_offset = w.app.cursor_line - visible_height + 1]
        ELSE w

\* editor_content[cursor_line] (0-based)
CurLine(a) == a.editor_content[a.cursor_line + 1]

\* a start_editing that puts the cursor at the end of the first line
start_editing_end(w, note_id) ==
    LET content == get_note(w.repo, note_id).content
        lines == IF content # <<>> THEN SplitNL(content, <<>>) ELSE << <<>> >>
    IN  [w EXCEPT !.app.editing_note = note_id,
                  !.app.editor_content = lines,
                  !.app.cursor_line = 0,
                  !.app.cursor_col = Len(lines[1]),
                  !.app.scroll_offset = 0,
                  !.app.editor_modified = FALSE,
                  !.app.state = "EDITOR"]

\* App._start_editing (app.py:421-429)
start_editing(w, note_id) ==
    LET content == get_note(w.repo, note_id).content
    IN  [w EXCEPT !.app.editing_note = note_id,
                  !.app.editor_content =
                      IF content # <<>> THEN SplitNL(content, <<>>) ELSE << <<>> >>,
                  !.app.cursor_line = 0,
                  !.app.cursor_col = 0,
                  !.app.scroll_offset = 0,
                  !.app.editor_modified = FALSE,
                  !.app.state = "EDITOR"]

\* a save_note that updates the note object and does not call the
\* Repository
save_note_memory(w) ==
    IF w.app.editing_note # 0
    THEN LET content == JoinNL(w.app.editor_content)
             now == Now(w.repo)
             upd == [n \in Range(w.repo.notes) |->
                        update_content(n, n.title, content, now)]
             w1 == MutateNote(w, w.app.editing_note, upd)
         IN  [w1 EXCEPT !.app.editor_modified = FALSE,
                        !.app.status_message = "Note saved"]
    ELSE w

\* App._save_note (app.py:431-438)
save_note(w) ==
    IF w.app.editing_note # 0
    THEN LET content == JoinNL(w.app.editor_content)
             now == Now(w.repo)
             upd == [n \in Range(w.repo.notes) |->
                        update_content(n, n.title, content, now)]
             w1 == MutateNote(w, w.app.editing_note, upd)
             w2 == update_note(w1, w.app.editing_note)
         IN  [w2 EXCEPT !.app.editor_modified = FALSE,
                        !.app.status_message = "Note saved"]
    ELSE w

\* an update_search that keeps the selection where it was
update_search_keep(w) ==
    LET found == search_notes(w.repo, w.app.search_query)
    IN  [w EXCEPT !.app.search_results = [i \in 1..Len(found) |-> found[i].id]]

\* App._update_search (app.py:440-443): the results are the note objects
update_search(w) ==
    LET found == search_notes(w.repo, w.app.search_query)
    IN  [w EXCEPT !.app.search_results = [i \in 1..Len(found) |-> found[i].id],
                  !.app.search_selected_idx = 0]

\* an insert_char that puts the character at the end of the line
insert_char_end(w, char) ==
    [w EXCEPT !.app.editor_content[w.app.cursor_line + 1] = Append(@, char),
              !.app.cursor_col = @ + 1,
              !.app.editor_modified = TRUE]

\* App._insert_char (app.py:446-451)
insert_char(w, char) ==
    LET line == CurLine(w.app)
        col == w.app.cursor_col
    IN  [w EXCEPT !.app.editor_content[w.app.cursor_line + 1] =
                      Slice(line, 0, col) \o <<char>> \o Slice(line, col, Len(line)),
                  !.app.cursor_col = col + 1,
                  !.app.editor_modified = TRUE]

\* list.insert(i, x), 0-based, 0 <= i
ListInsert(s, i, x) == Slice(s, 0, i) \o <<x>> \o Slice(s, i, Len(s))

\* del s[i], 0-based, i within the list
ListDel(s, i) == Slice(s, 0, i) \o Slice(s, i + 1, Len(s))

\* App._insert_newline (app.py:453-463)
insert_newline(w) ==
    LET line == CurLine(w.app)
        before == Slice(line, 0, w.app.cursor_col)
        after == Slice(line, w.app.cursor_col, Len(line))
        lines1 == [w.app.editor_content EXCEPT ![w.app.cursor_line + 1] = before]
    IN  adjust_scroll(
            [w EXCEPT !.app.editor_content = ListInsert(lines1, w.app.cursor_line + 1, after),
                      !.app.cursor_line = @ + 1,
                      !.app.cursor_col = 0,
                      !.app.editor_modified = TRUE])

\* a delete_char_before that leaves the cursor at the end of the joined
\* line
delete_char_before_end(w) ==
    LET a == w.app
    IN  IF a.cursor_col > 0
        THEN LET line == CurLine(a)
             IN  [w EXCEPT !.app.editor_content[a.cursor_line + 1] =
                               Slice(line, 0, a.cursor_col - 1)
                               \o Slice(line, a.cursor_col, Len(line)),
                           !.app.cursor_col = @ - 1,
                           !.app.editor_modified = TRUE]
        ELSE IF a.cursor_line > 0
        THEN LET prev_line == a.editor_content[a.cursor_line]
                 curr_line == CurLine(a)
                 lines1 == [a.editor_content EXCEPT ![a.cursor_line] = prev_line \o curr_line]
             IN  adjust_scroll(
                     [w EXCEPT !.app.editor_content = ListDel(lines1, a.cursor_line),
                               !.app.cursor_line = @ - 1,
                               !.app.cursor_col = Len(prev_line \o curr_line),
                               !.app.editor_modified = TRUE])
        ELSE w

\* a delete_char_before that joins two lines and leaves the cursor at the
\* start of the joined line
delete_char_before_start(w) ==
    LET a == w.app
    IN  IF a.cursor_col > 0
        THEN LET line == CurLine(a)
             IN  [w EXCEPT !.app.editor_content[a.cursor_line + 1] =
                               Slice(line, 0, a.cursor_col - 1)
                               \o Slice(line, a.cursor_col, Len(line)),
                           !.app.cursor_col = @ - 1,
                           !.app.editor_modified = TRUE]
        ELSE IF a.cursor_line > 0
        THEN LET prev_line == a.editor_content[a.cursor_line]
                 curr_line == CurLine(a)
                 lines1 == [a.editor_content EXCEPT ![a.cursor_line] = prev_line \o curr_line]
             IN  adjust_scroll(
                     [w EXCEPT !.app.editor_content = ListDel(lines1, a.cursor_line),
                               !.app.cursor_line = @ - 1,
                               !.app.cursor_col = 0,
                               !.app.editor_modified = TRUE])
        ELSE w

\* App._delete_char_before (app.py:465-481)
delete_char_before(w) ==
    LET a == w.app
    IN  IF a.cursor_col > 0
        THEN LET line == CurLine(a)
             IN  [w EXCEPT !.app.editor_content[a.cursor_line + 1] =
                               Slice(line, 0, a.cursor_col - 1)
                               \o Slice(line, a.cursor_col, Len(line)),
                           !.app.cursor_col = @ - 1,
                           !.app.editor_modified = TRUE]
        ELSE IF a.cursor_line > 0
        THEN LET prev_line == a.editor_content[a.cursor_line]
                 curr_line == CurLine(a)
                 lines1 == [a.editor_content EXCEPT ![a.cursor_line] = prev_line \o curr_line]
             IN  adjust_scroll(
                     [w EXCEPT !.app.editor_content = ListDel(lines1, a.cursor_line),
                               !.app.cursor_line = @ - 1,
                               !.app.cursor_col = Len(prev_line),
                               !.app.editor_modified = TRUE])
        ELSE w

\* App._delete_char_at (app.py:483-494)
delete_char_at(w) ==
    LET a == w.app
        line == CurLine(a)
    IN  IF a.cursor_col < Len(line)
        THEN [w EXCEPT !.app.editor_content[a.cursor_line + 1] =
                           Slice(line, 0, a.cursor_col)
                           \o Slice(line, a.cursor_col + 1, Len(line)),
                       !.app.editor_modified = TRUE]
        ELSE IF a.cursor_line < Len(a.editor_content) - 1
        THEN LET next_line == a.editor_content[a.cursor_line + 2]
                 lines1 == [a.editor_content EXCEPT ![a.cursor_line + 1] = line \o next_line]
             IN  [w EXCEPT !.app.editor_content = ListDel(lines1, a.cursor_line + 1),
                           !.app.editor_modified = TRUE]
        ELSE w

\* a variant of move_cursor_up that keeps the column of the line it leaves
move_cursor_up_keep(w) ==
    IF w.app.cursor_line > 0
    THEN adjust_scroll([w EXCEPT !.app.cursor_line = @ - 1])
    ELSE w

\* App._move_cursor_up (app.py:496-501)
move_cursor_up(w) ==
    IF w.app.cursor_line > 0
    THEN adjust_scroll(
             [w EXCEPT !.app.cursor_line = @ - 1,
                       !.app.cursor_col =
                           Min(@, Len(w.app.editor_content[w.app.cursor_line]))])
    ELSE w

\* App._move_cursor_down (app.py:503-508)
move_cursor_down(w) ==
    IF w.app.cursor_line < Len(w.app.editor_content) - 1
    THEN adjust_scroll(
             [w EXCEPT !.app.cursor_line = @ + 1,
                       !.app.cursor_col =
                           Min(@, Len(w.app.editor_content[w.app.cursor_line + 2]))])
    ELSE w

\* App._move_cursor_left (app.py:510-517)
move_cursor_left(w) ==
    IF w.app.cursor_col > 0
    THEN [w EXCEPT !.app.cursor_col = @ - 1]
    ELSE IF w.app.cursor_line > 0
    THEN adjust_scroll(
             [w EXCEPT !.app.cursor_line = @ - 1,
                       !.app.cursor_col = Len(w.app.editor_content[w.app.cursor_line])])
    ELSE w

\* App._move_cursor_right (app.py:519-527)
move_cursor_right(w) ==
    IF w.app.cursor_col < Len(CurLine(w.app))
    THEN [w EXCEPT !.app.cursor_col = @ + 1]
    ELSE IF w.app.cursor_line < Len(w.app.editor_content) - 1
    THEN adjust_scroll([w EXCEPT !.app.cursor_line = @ + 1, !.app.cursor_col = 0])
    ELSE w

----------------------------------------------------------------------------
(* App (app.py): the input handlers *)

\* "char = event.char.lower() if event.key == Key.CHAR else ''"
\* (app.py:223, 355, 379)
LowerCharOf(ev) == IF ev.key = "CHAR" THEN Lower(ev.char) ELSE ""

\* seq[idx] of Python for idx >= 0: an IndexError past the end
InRange(seq, idx) == idx < Len(seq)

\* a list view that knows Tab and d only, and opens the delete
\* confirmation on every d
handle_list_input_open(w, ev) ==
    IF ev.key = "TAB"
    THEN [w EXCEPT !.app.focus_panel =
                       IF w.app.focus_panel = "notebooks" THEN "notes" ELSE "notebooks"]
    ELSE IF LowerCharOf(ev) = "d"
    THEN [w EXCEPT !.app.state = "CONFIRM_DELETE"]
    ELSE w

\* App._handle_list_input (app.py:216-281)
handle_list_input(w, ev) ==
    LET a == w.app
        notebooks == get_all_notebooks(w.repo)
    IN  IF notebooks # <<>> /\ ~InRange(notebooks, a.selected_notebook_idx)
        THEN Raised(w)
        ELSE
        LET has_nb == notebooks # <<>>
            current_nb == notebooks[a.selected_notebook_idx + 1]
            notes == IF has_nb THEN get_notes_by_notebook(w.repo, current_nb.id) ELSE <<>>
            key == ev.key
            char == LowerCharOf(ev)
        IN  IF key = "DOWN" \/ char = "j"
            THEN IF a.focus_panel = "notebooks"
                 THEN [w EXCEPT !.app.selected_notebook_idx =
                                    Min(a.selected_notebook_idx + 1, Len(notebooks) - 1),
                                !.app.selected_note_idx = 0]
                 ELSE [w EXCEPT !.app.selected_note_idx =
                                    Min(a.selected_note_idx + 1, Max(0, Len(notes) - 1))]
            ELSE IF key = "UP" \/ char = "k"
            THEN IF a.focus_panel = "notebooks"
                 THEN [w EXCEPT !.app.selected_notebook_idx =
                                    Max(a.selected_notebook_idx - 1, 0),
                                !.app.selected_note_idx = 0]
                 ELSE [w EXCEPT !.app.selected_note_idx =
                                    Max(a.selected_note_idx - 1, 0)]
            ELSE IF key = "LEFT" \/ char = "h"
            THEN [w EXCEPT !.app.focus_panel = "notebooks"]
            ELSE IF key = "RIGHT" \/ char = "l"
            THEN [w EXCEPT !.app.focus_panel = "notes"]
            ELSE IF key = "TAB"
            THEN [w EXCEPT !.app.focus_panel =
                               IF a.focus_panel = "notebooks" THEN "notes" ELSE "notebooks"]
            ELSE IF char = "n"
            THEN [w EXCEPT !.app.input_buffer = <<>>,
                           !.app.state = "INPUT_NOTE_TITLE"]
            ELSE IF ev.char = "N"
            THEN [w EXCEPT !.app.input_buffer = <<>>,
                           !.app.state = "INPUT_NOTEBOOK"]
            ELSE IF char = "e" \/ key = "ENTER"
            THEN IF a.focus_panel = "notes" /\ notes # <<>>
                 THEN IF InRange(notes, a.selected_note_idx)
                      THEN start_editing(w, notes[a.selected_note_idx + 1].id)
                      ELSE Raised(w)
                 ELSE w
            ELSE IF char = "d"
            THEN IF a.focus_panel = "notes" /\ notes # <<>>
                 THEN [w EXCEPT !.app.state = "CONFIRM_DELETE"]
                 ELSE IF a.focus_panel = "notebooks" /\ has_nb
                         /\ current_nb.id # DefaultId
                 THEN [w EXCEPT !.app.state = "CONFIRM_DELETE"]
                 ELSE w
            ELSE IF char = "/"
            THEN [w EXCEPT !.app.search_query = <<>>,
                           !.app.search_results = <<>>,
                           !.app.search_selected_idx = 0,
                           !.app.state = "SEARCH"]
            ELSE IF char = "?"
            THEN [w EXCEPT !.app.state = "HELP"]
            ELSE IF char = "q" \/ key = "CTRL_Q"
            THEN [w EXCEPT !.app.state = "QUIT_CONFIRM"]
            ELSE IF key = "CTRL_C"
            THEN [w EXCEPT !.app.running = FALSE]
            ELSE w

\* the text-editing keys of App._handle_editor_input (app.py:299-319)
editor_text_key(w, ev) ==
    LET key == ev.key
    IN  IF is_printable(ev) THEN insert_char(w, ev.char)
        ELSE IF key = "ENTER" THEN insert_newline(w)
        ELSE IF key = "BACKSPACE" THEN delete_char_before(w)
        ELSE IF key = "DELETE" THEN delete_char_at(w)
        ELSE IF key = "UP" THEN move_cursor_up(w)
        ELSE IF key = "DOWN" THEN move_cursor_down(w)
        ELSE IF key = "LEFT" THEN move_cursor_left(w)
        ELSE IF key = "RIGHT" THEN move_cursor_right(w)
        ELSE IF key = "HOME" THEN [w EXCEPT !.app.cursor_col = 0]
        ELSE IF key = "END" THEN [w EXCEPT !.app.cursor_col = Len(CurLine(w.app))]
        ELSE w

\* a variant of editor_escape that leaves the editor without saving
editor_escape_discard(w) ==
    hide_cursor([w EXCEPT !.app.state = "LIST"])

\* an Escape arm that leaves the cursor as the editor showed it
editor_escape_visible(w) ==
    LET w1 == IF w.app.editor_modified THEN save_note(w) ELSE w
    IN  [w1 EXCEPT !.app.state = "LIST"]

\* an Escape arm that saves and stays in the editor
editor_escape_stay(w) ==
    IF w.app.editor_modified THEN save_note(w) ELSE w

\* the Escape branch of App._handle_editor_input (app.py:287-293)
editor_escape(w) ==
    LET w1 == IF w.app.editor_modified THEN save_note(w) ELSE w
    IN  hide_cursor([w1 EXCEPT !.app.state = "LIST"])

\* App._handle_editor_input (app.py:283-319)
handle_editor_input(w, ev) ==
    IF ev.key = "ESCAPE" THEN editor_escape(w)
    ELSE IF ev.key = "CTRL_S" THEN save_note(w)
    ELSE editor_text_key(w, ev)

\* a remainder that stops at the ends instead of going round
PyModClamp(x, n) ==
    IF x < 0 THEN 0 ELSE IF x >= n THEN n - 1 ELSE x

\* x % n of Python for n > 0: the result is in 0..n-1 also for x < 0
PyMod(x, n) ==
    x % n

\* App._handle_search_input (app.py:321-351)
handle_search_input(w, ev) ==
    LET a == w.app
        key == ev.key
        n == Len(a.search_results)
    IN  IF key = "ESCAPE" THEN [w EXCEPT !.app.state = "LIST"]
        ELSE IF key = "ENTER"
        THEN IF n > 0
             THEN IF InRange(a.search_results, a.search_selected_idx)
                  THEN start_editing(w, a.search_results[a.search_selected_idx + 1])
                  ELSE Raised(w)
             ELSE w
        ELSE IF key = "DOWN" \/ key = "TAB"
        THEN IF n > 0
             THEN [w EXCEPT !.app.search_selected_idx = PyMod(a.search_selected_idx + 1, n)]
             ELSE w
        ELSE IF key = "UP"
        THEN IF n > 0
             THEN [w EXCEPT !.app.search_selected_idx = PyMod(a.search_selected_idx - 1, n)]
             ELSE w
        ELSE IF is_printable(ev)
        THEN update_search([w EXCEPT !.app.search_query = Append(@, ev.char)])
        ELSE IF key = "BACKSPACE" /\ a.search_query # <<>>
        THEN update_search([w EXCEPT !.app.search_query = Slice(@, 0, Len(@) - 1)])
        ELSE w

\* a variant of delete_selected_note that leaves the selection where it was
delete_selected_note_keep(w, notes) ==
    [delete_note(w, notes[w.app.selected_note_idx + 1].id)
        EXCEPT !.app.status_message = "Note deleted"]

\* a variant of delete_selected_note that deletes the first note of the
\* list
delete_selected_note_first(w, notes) ==
    [delete_note(w, notes[1].id)
        EXCEPT !.app.selected_note_idx = Max(0, w.app.selected_note_idx - 1),
               !.app.status_message = "Note deleted"]

\* the deletion of the selected note in App._handle_delete_confirm_input
\* (app.py:363-365)
delete_selected_note(w, notes) ==
    [delete_note(w, notes[w.app.selected_note_idx + 1].id)
        EXCEPT !.app.selected_note_idx = Max(0, w.app.selected_note_idx - 1),
               !.app.status_message = "Note deleted"]

\* a delete confirmation whose every answer goes back to the first note
\* of the list without deleting
handle_delete_confirm_input_reset(w, ev) ==
    LET char == LowerCharOf(ev)
    IN  IF char = "y" \/ char = "n" \/ ev.key = "ESCAPE"
        THEN [w EXCEPT !.app.state = "LIST", !.app.selected_note_idx = 0]
        ELSE w

\* App._handle_delete_confirm_input (app.py:353-375)
handle_delete_confirm_input(w, ev) ==
    LET a == w.app
        char == LowerCharOf(ev)
        notebooks == get_all_notebooks(w.repo)
    IN  IF char = "y"
        THEN IF ~InRange(notebooks, a.selected_notebook_idx) THEN Raised(w)
             ELSE
             LET current_nb == notebooks[a.selected_notebook_idx + 1]
                 notes == get_notes_by_notebook(w.repo, current_nb.id)
                 w1 == IF a.focus_panel = "notes"
                       THEN IF notes # <<>>
                            THEN IF InRange(notes, a.selected_note_idx)
                                 THEN delete_selected_note(w, notes)
                                 ELSE Raised(w)
                            ELSE w
                       ELSE IF current_nb.id # DefaultId
                            THEN [delete_notebook(w, current_nb.id)
                                     EXCEPT !.app.selected_notebook_idx = 0,
                                            !.app.status_message = "Notebook deleted"]
                            ELSE w
             IN  IF w1.log.raised THEN w1 ELSE [w1 EXCEPT !.app.state = "LIST"]
        ELSE IF char = "n" \/ ev.key = "ESCAPE"
        THEN [w EXCEPT !.app.state = "LIST"]
        ELSE w

\* App._handle_quit_confirm_input (app.py:377-384)
\* a quit confirmation that any key confirms
handle_quit_confirm_input_any(w, ev) ==
    [w EXCEPT !.app.running = FALSE]

handle_quit_confirm_input(w, ev) ==
    LET char == LowerCharOf(ev)
    IN  IF char = "y" THEN [w EXCEPT !.app.running = FALSE]
        ELSE IF char = "n" \/ ev.key = "ESCAPE" THEN [w EXCEPT !.app.state = "LIST"]
        ELSE w

\* a callback that creates a notebook without its name
create_notebook_callback_unnamed(w, name) ==
    [create_notebook(w, <<>>) EXCEPT !.app.status_message = "Created notebook"]

\* App._create_notebook_callback (app.py:409-412); the message also
\* carries the name
create_notebook_callback(w, name) ==
    [create_notebook(w, name) EXCEPT !.app.status_message = "Created notebook"]

\* App._create_note_callback (app.py:414-419)
create_note_callback(w, title) ==
    LET notebooks == get_all_notebooks(w.repo)
    IN  IF ~InRange(notebooks, w.app.selected_notebook_idx) THEN Raised(w)
        ELSE LET current_nb == notebooks[w.app.selected_notebook_idx + 1]
                 w1 == create_note(w, title, <<>>, current_nb.id)
                 note == w1.repo.notes[Len(w1.repo.notes)]
             IN  start_editing(w1, note.id)

\* the callback App._handle_input passes for the view (app.py:209-212)
Callback(w, view, text) ==
    IF view = "INPUT_NOTEBOOK" THEN create_notebook_callback(w, text)
    ELSE create_note_callback(w, text)

\* the Enter branch of App._handle_input_dialog (app.py:396-402)
input_dialog_enter(w, view) ==
    LET w1 == IF w.app.input_buffer # <<>>
              THEN Callback(w, view, w.app.input_buffer)
              ELSE w
    IN  IF w1.log.raised THEN w1
        ELSE hide_cursor([w1 EXCEPT !.app.input_buffer = <<>>,
                                    !.app.state = "LIST"])

\* App._handle_input_dialog (app.py:386-407)
handle_input_dialog(w, ev, view) ==
    LET key == ev.key
    IN  IF key = "ESCAPE"
        THEN hide_cursor([w EXCEPT !.app.input_buffer = <<>>, !.app.state = "LIST"])
        ELSE IF key = "ENTER" THEN input_dialog_enter(w, view)
        ELSE IF is_printable(ev)
        THEN [w EXCEPT !.app.input_buffer = Append(@, ev.char)]
        ELSE IF key = "BACKSPACE" /\ w.app.input_buffer # <<>>
        THEN [w EXCEPT !.app.input_buffer = Slice(@, 0, Len(@) - 1)]
        ELSE w

\* a handle_input that leaves the status message as it finds it
handle_input_keep(w, ev) ==
    LET view == w.app.state
    IN  CASE view = "LIST" -> handle_list_input(w, ev)
          [] view = "EDITOR" -> handle_editor_input(w, ev)
          [] view = "SEARCH" -> handle_search_input(w, ev)
          [] view = "HELP" -> [w EXCEPT !.app.state = "LIST"]
          [] view = "CONFIRM_DELETE" -> handle_delete_confirm_input(w, ev)
          [] view = "INPUT_NOTEBOOK" -> handle_input_dialog(w, ev, view)
          [] view = "INPUT_NOTE_TITLE" -> handle_input_dialog(w, ev, view)
          [] view = "QUIT_CONFIRM" -> handle_quit_confirm_input(w, ev)

\* App._handle_input after read_key returned the event ev (app.py:197-214)
handle_input(w, ev) ==
    LET w0 == [w EXCEPT !.app.status_message = ""]
        view == w.app.state
    IN  CASE view = "LIST" -> handle_list_input(w0, ev)
          [] view = "EDITOR" -> handle_editor_input(w0, ev)
          [] view = "SEARCH" -> handle_search_input(w0, ev)
          [] view = "HELP" -> [w0 EXCEPT !.app.state = "LIST"]
          [] view = "CONFIRM_DELETE" -> handle_delete_confirm_input(w0, ev)
          [] view = "INPUT_NOTEBOOK" -> handle_input_dialog(w0, ev, view)
          [] view = "INPUT_NOTE_TITLE" -> handle_input_dialog(w0, ev, view)
          [] view = "QUIT_CONFIRM" -> handle_quit_confirm_input(w0, ev)

----------------------------------------------------------------------------
(* App (app.py): rendering *)

\* App._render_list_view (app.py:136-156) with Renderer.render_main_view's
\* update_size (renderer.py:51)
render_list_view(w, sz) ==
    LET notebooks == get_all_notebooks(w.repo)
    IN  IF notebooks # <<>> /\ ~InRange(notebooks, w.app.selected_notebook_idx)
        THEN Raised(w)
        ELSE LET notes == IF notebooks # <<>>
                          THEN get_notes_by_notebook(
                                   w.repo, notebooks[w.app.selected_notebook_idx + 1].id)
                          ELSE <<>>
             IN  screen_calls(update_size(w, sz),
                              render_main_view(sz[1], sz[2], Len(notebooks), Len(notes)))

\* App._render_editor_view (app.py:158-169): the note object's content is
\* overwritten with the buffer before it is drawn
render_editor_view(w, sz) ==
    IF w.app.editing_note # 0
    THEN LET content == JoinNL(w.app.editor_content)
             upd == [n \in Range(w.repo.notes) |-> [n EXCEPT !.content = content]]
             w1 == MutateNote(w, w.app.editing_note, upd)
         IN  screen_calls(update_size(w1, sz),
                          render_editor(sz[1], sz[2], w.app.cursor_line,
                                        w.app.cursor_col, w.app.scroll_offset))
    ELSE w

\* App._render_search_view (app.py:171-181)
render_search_view(w, sz) ==
    screen_calls(update_size(w, sz),
                 render_search(sz[1], sz[2], w.app.search_query,
                               Len(w.app.search_results)))

\* the dialog drawn over the list view, by the view (app.py:120-134,
\* 183-189); the lengths are those of the message and prompt texts
Dialog(w, sz) ==
    LET view == w.app.state
    IN  CASE view = "HELP" -> render_help(sz[1], sz[2])
          [] view = "CONFIRM_DELETE" ->
                 \* "Delete this note?" / "Delete this notebook?"
                 render_confirm_dialog(sz[1], sz[2],
                     IF w.app.focus_panel = "notes" THEN 17 ELSE 21)
          [] view = "INPUT_NOTEBOOK" ->
                 \* "New notebook name"
                 render_input_dialog(sz[1], sz[2], 17, Len(w.app.input_buffer))
          [] view = "INPUT_NOTE_TITLE" ->
                 \* "Note title"
                 render_input_dialog(sz[1], sz[2], 10, Len(w.app.input_buffer))
          [] view = "QUIT_CONFIRM" ->
                 \* "Quit application?"
                 render_confirm_dialog(sz[1], sz[2], 17)

\* App._render (app.py:112-134): sz1 is the terminal size the first
\* update_size of the frame reads, sz2 the size the dialog's reads
render(w, sz1, sz2) ==
    LET view == w.app.state
    IN  IF view = "LIST" THEN render_list_view(w, sz1)
        ELSE IF view = "EDITOR" THEN render_editor_view(w, sz1)
        ELSE IF view = "SEARCH" THEN render_search_view(w, sz1)
        ELSE LET w1 == render_list_view(w, sz1)
             IN  IF w1.log.raised THEN w1
                 ELSE screen_calls(update_size(w1, sz2), Dialog(w1, sz2))

\* a frame cut short by an exception (an interrupt signal, a failed
\* write) after begin_frame and the clearing of the rows
render_cut(w, sz) ==
    Raised(screen_calls(update_size(w, sz), <<BeginFrame>> \o ClearRows(sz[2])))

\* the finally block of App.run (app.py:107-110)
run_finally(w) ==
    exit_alternate_screen(exit_raw_mode(show_cursor(w)))

\* the calls of App.run before its loop (app.py:99-101)
run_enter(w) ==
    hide_cursor(enter_raw_mode(enter_alternate_screen(w)))

----------------------------------------------------------------------------
(* InputHandler (tui/input_handler.py)                                     *)
(*                                                                         *)
(* The input stream is a sequence of [ch, gap]: the character and the     *)
(* milliseconds from the moment the reader starts to wait for it until it *)
(* has arrived at the terminal's file descriptor.  After the last          *)
(* character the stream is either silent or at its end (eof), where        *)
(* select() reports it readable and read(1) returns the empty string.      *)
(* sys.stdin is a buffered text stream: buf holds the characters it has    *)
(* taken from the descriptor and not yet returned.                         *)

\* timeout of read_key in the run loop, in ms (app.py:193)
ReadTimeoutMs == 100
\* the wait for a character after Escape, in ms (input_handler.py:145)
EscTimeoutMs == 50
\* the wait between the characters of a sequence, in ms (input_handler.py:149)
InterByteMs == 10
\* "if len(seq) > 6: break" (input_handler.py:158)
SeqLimit == 6

\* ord(ch) of the characters of the model
Ord(c) ==
    CASE c = "NUL" -> 0   [] c = "ETX" -> 3   [] c = "EOT" -> 4
      [] c = "BS" -> 8    [] c = "TAB" -> 9   [] c = "LF" -> 10
      [] c = "CR" -> 13   [] c = "SO" -> 14   [] c = "DC1" -> 17
      [] c = "DC3" -> 19  [] c = "ESC" -> 27  [] c = "DEL" -> 127
      [] c = "NBSP" -> 160
      [] c = "[" -> 91    [] c = "~" -> 126   [] c = "/" -> 47
      [] c = "?" -> 63    [] c = "3" -> 51    [] c = "5" -> 53
      [] c = "6" -> 54    [] c = "A" -> 65    [] c = "B" -> 66
      [] c = "C" -> 67    [] c = "D" -> 68    [] c = "F" -> 70
      [] c = "H" -> 72    [] c = "N" -> 78    [] c = "O" -> 79
      [] c = "P" -> 80    [] c = "Q" -> 81    [] c = "R" -> 82
      [] c = "S" -> 83    [] c = "T" -> 84    [] c = "Y" -> 89
      [] c = "a" -> 97    [] c = "d" -> 100   [] c = "e" -> 101
      [] c = "h" -> 104   [] c = "j" -> 106   [] c = "k" -> 107
      [] c = "l" -> 108   [] c = "n" -> 110   [] c = "o" -> 111
      [] c = "q" -> 113   [] c = "s" -> 115   [] c = "t" -> 116
      [] c = "y" -> 121

\* InputHandler.ESCAPE_SEQUENCES (input_handler.py:84-98)
ESCAPE_SEQUENCES ==
    { <<<<"[", "A">>, "UP">>,        <<<<"[", "B">>, "DOWN">>,
      <<<<"[", "C">>, "RIGHT">>,     <<<<"[", "D">>, "LEFT">>,
      <<<<"[", "H">>, "HOME">>,      <<<<"[", "F">>, "END">>,
      <<<<"[", "5", "~">>, "PAGE_UP">>,
      <<<<"[", "6", "~">>, "PAGE_DOWN">>,
      <<<<"[", "3", "~">>, "DELETE">>,
      <<<<"O", "P">>, "UNKNOWN">>,   <<<<"O", "Q">>, "UNKNOWN">>,
      <<<<"O", "R">>, "UNKNOWN">>,   <<<<"O", "S">>, "UNKNOWN">> }

\* "seq in self.ESCAPE_SEQUENCES" and "self.ESCAPE_SEQUENCES[seq]"
InTable(seq) == \E e \in ESCAPE_SEQUENCES : e[1] = seq
TableKey(seq) == (CHOOSE e \in ESCAPE_SEQUENCES : e[1] = seq)[2]

NoEvent == [key |-> "None", char |-> ""]

\* InputHandler._has_input (input_handler.py:130-133): whether select()
\* finds the file descriptor of sys.stdin readable within timeout ms, and
\* the stream after the wait.  select() asks the operating system: the
\* characters sys.stdin already holds in its own buffer (d.buf) do not make
\* it readable.
has_input(d, timeout) ==
    IF d.stream = <<>>
    THEN [ok |-> d.eof, d |-> d]
    ELSE IF Head(d.stream).gap <= timeout
    THEN [ok |-> TRUE, d |-> [d EXCEPT !.stream[1].gap = 0]]
    ELSE [ok |-> FALSE, d |-> [d EXCEPT !.stream[1].gap = @ - timeout]]

\* the characters that have arrived with the first of the stream: those
\* that follow it with no delay
RECURSIVE Burst(_)
Burst(stream) ==
    IF Len(stream) >= 2 /\ stream[2].gap = 0
    THEN 1 + Burst(Tail(stream))
    ELSE 1

\* InputHandler._read_char (input_handler.py:135-140), called when select()
\* found the descriptor readable: sys.stdin.read(1) of the buffered text
\* stream.  It returns a character it holds if it holds one; otherwise it
\* reads every character that has arrived, returns the first and holds the
\* others; at the end of the stream it returns "".
read_char(d) ==
    IF d.buf # <<>>
    THEN [ch |-> Head(d.buf).ch,
          d |-> [d EXCEPT !.buf = Tail(@), !.reads = @ + 1]]
    ELSE IF d.stream = <<>>
    THEN [ch |-> "", d |-> [d EXCEPT !.reads = @ + 1]]
    ELSE LET n == Burst(d.stream)
         IN  [ch |-> Head(d.stream).ch,
              d |-> [d EXCEPT !.buf = SubSeq(d.stream, 2, n),
                              !.stream = SubSeq(d.stream, n + 1, Len(d.stream)),
                              !.reads = @ + 1]]

\* read_key returns ev
Return(d, ev) ==
    [d EXCEPT !.pc = "returned", !.result = ev,
              !.events = IF ev = NoEvent THEN @ ELSE Append(@, ev)]

\* a handle_control_char that knows the line feed alone as Enter
handle_control_char_lf(ch) ==
    LET code == Ord(ch)
    IN  IF code = 3 THEN KeyEvent("CTRL_C")
        ELSE IF code = 4 THEN KeyEvent("CTRL_D")
        ELSE IF code = 9 THEN KeyEvent("TAB")
        ELSE IF code = 10 THEN KeyEvent("ENTER")
        ELSE IF code = 14 THEN KeyEvent("CTRL_N")
        ELSE IF code = 17 THEN KeyEvent("CTRL_Q")
        ELSE IF code = 19 THEN KeyEvent("CTRL_S")
        ELSE IF code = 127 \/ code = 8 THEN KeyEvent("BACKSPACE")
        ELSE KeyEvent("UNKNOWN")

\* InputHandler._handle_control_char (input_handler.py:167-188)
handle_control_char(ch) ==
    LET code == Ord(ch)
    IN  IF code = 3 THEN KeyEvent("CTRL_C")
        ELSE IF code = 4 THEN KeyEvent("CTRL_D")
        ELSE IF code = 9 THEN KeyEvent("TAB")
        ELSE IF code = 10 \/ code = 13 THEN KeyEvent("ENTER")
        ELSE IF code = 14 THEN KeyEvent("CTRL_N")
        ELSE IF code = 17 THEN KeyEvent("CTRL_Q")
        ELSE IF code = 19 THEN KeyEvent("CTRL_S")
        ELSE IF code = 127 \/ code = 8 THEN KeyEvent("BACKSPACE")
        ELSE KeyEvent("UNKNOWN")

\* InputHandler.read_key up to its first character (input_handler.py:
\* 104-128); ord("") raises TypeError
read_key(d, timeout) ==
    LET d0 == [d EXCEPT !.reads = 0, !.seq = <<>>, !.call_in = d.buf \o d.stream]
        hi == has_input(d0, timeout)
        rd == read_char(hi.d)
    IN  IF ~hi.ok THEN Return(hi.d, NoEvent)
        ELSE IF rd.ch = "" THEN [rd.d EXCEPT !.pc = "raised"]
        ELSE IF rd.ch = "ESC" THEN [rd.d EXCEPT !.pc = "esc"]
        ELSE IF Ord(rd.ch) < 32 THEN Return(rd.d, handle_control_char(rd.ch))
        ELSE IF Ord(rd.ch) = 127 THEN Return(rd.d, KeyEvent("BACKSPACE"))
        ELSE Return(rd.d, CharEvent(rd.ch))

\* the first wait of _handle_escape_sequence (input_handler.py:144-148)
escape_wait(d) ==
    LET hi == has_input(d, EscTimeoutMs)
    IN  IF ~hi.ok THEN Return(hi.d, KeyEvent("ESCAPE"))
        ELSE [hi.d EXCEPT !.pc = "loop", !.seq = <<>>]

\* what follows the while loop of _handle_escape_sequence
\* (input_handler.py:161-165)
escape_end(d) ==
    IF InTable(d.seq) THEN Return(d, KeyEvent(TableKey(d.seq)))
    ELSE Return(d, KeyEvent("ESCAPE"))

\* one turn of the while loop of _handle_escape_sequence
\* (input_handler.py:149-159)
escape_loop(d) ==
    LET hi == has_input(d, InterByteMs)
        rd == read_char(hi.d)
        seq == IF rd.ch = "" THEN d.seq ELSE Append(d.seq, rd.ch)
        d1 == [rd.d EXCEPT !.seq = seq]
    IN  IF ~hi.ok THEN escape_end(hi.d)
        ELSE IF InTable(seq) THEN Return(d1, KeyEvent(TableKey(seq)))
        ELSE IF Len(seq) > SeqLimit THEN escape_end(d1)
        ELSE d1

----------------------------------------------------------------------------
(* The state machine *)

\* the world a step starts from, with a fresh record of what the step does
\* log.before: the editor buffer and cursor as they were before an Enter
\* key event in the editor, kept while that Enter is the last key event
\* (pending) and through a Backspace that follows it at once
Before(step, ev) ==
    IF step # "input" \/ ev = NoEvent THEN log.before
    ELSE IF app.state = "EDITOR" /\ ev = KeyEvent("ENTER")
    THEN <<[editor_content |-> app.editor_content,
            cursor_line |-> app.cursor_line,
            cursor_col |-> app.cursor_col,
            pending |-> TRUE]>>
    ELSE IF /\ app.state = "EDITOR" /\ ev = KeyEvent("BACKSPACE")
            /\ log.before # <<>> /\ log.before[1].pending
    THEN <<[log.before[1] EXCEPT !.pending = FALSE]>>
    ELSE <<>>

Begin(step, ev) ==
    [app |-> app, repo |-> repo, screen |-> screen, term |-> term,
     log |-> [step |-> step, event |-> ev, view |-> app.state,
              saves |-> <<>>, out |-> <<>>, raised |-> FALSE,
              arg |-> <<>>, ret |-> "None", before |-> Before(step, ev)]]

\* timestamps as ranks: the program only compares them
Compact(r) ==
    LET ts == {r.notes[i].updated_at : i \in 1..Len(r.notes)}
              \cup {r.disk.notes[i].updated_at : i \in 1..Len(r.disk.notes)}
        Rank(t) == Cardinality({u \in ts : u <= t})
    IN  [r EXCEPT !.notes = [i \in 1..Len(@) |->
                                 [@[i] EXCEPT !.updated_at = Rank(@)]],
                  !.disk.notes = [i \in 1..Len(@) |->
                                      [@[i] EXCEPT !.updated_at = Rank(@)]]]

Commit(w) ==
    /\ app' = w.app
    /\ repo' = Compact(w.repo)
    /\ screen' = w.screen
    /\ term' = w.term
    /\ log' = w.log

\* the terminal sizes os.get_terminal_size answers (columns, lines); 80 x 24
\* is also the fallback of Screen.get_size (screen.py:77-83)
Sizes == {<<80, 24>>, <<40, 10>>}

\* the data files the Repository may find: none yet (it writes an empty
\* one, repository.py:45-49), or one written by an earlier run
EmptyData == [notebooks |-> <<>>, notes |-> <<>>]

StoredData ==
    [notebooks |-> <<notebook_to_dict(create_default),
                     [id |-> "nb1", name |-> <<"W">>]>>,
     notes |-> <<note_to_dict(Note(1, <<"A">>, <<>>, DefaultId, 1)),
                 note_to_dict(Note(2, <<"a">>, <<"a">>, DefaultId, 2)),
                 note_to_dict(Note(3, <<"a">>, <<>>, "nb1", 3))>>]

DataFiles == {EmptyData, StoredData}

\* App.__init__ (app.py:60-94); 0 stands for None
AppInit ==
    [state |-> "LIST", running |-> TRUE,
     selected_notebook_idx |-> 0, selected_note_idx |-> 0,
     focus_panel |-> "notes",
     editing_note |-> 0, editor_content |-> <<>>,
     cursor_line |-> 0, cursor_col |-> 0, scroll_offset |-> 0,
     editor_modified |-> FALSE,
     search_query |-> <<>>, search_results |-> <<>>, search_selected_idx |-> 0,
     input_buffer |-> <<>>, status_message |-> ""]

\* Screen.__init__ (screen.py:68-75)
ScreenInit(sz) ==
    [old_settings |-> "None", width |-> sz[1], height |-> sz[2],
     buffer |-> <<>>, buffering |-> FALSE]

LogInit ==
    [step |-> "init", event |-> NoEvent, view |-> "LIST",
     saves |-> <<>>, out |-> <<>>, raised |-> FALSE,
     arg |-> <<>>, ret |-> "None", before |-> <<>>]

DecInit(stream, eof) ==
    [stream |-> stream, buf |-> <<>>, eof |-> eof, pc |-> "idle", seq |-> <<>>,
     reads |-> 0,
     call_in |-> <<>>, result |-> NoEvent, events |-> <<>>]

\* the terminal before the program starts
TermInit(tty, settings) ==
    [isatty |-> tty, settings |-> settings, at_start |-> settings,
     alt |-> FALSE, cursor |-> TRUE]

InitWith(data, sz, tty, settings) ==
    /\ app = AppInit
    /\ repo = Compact(load(data))
    /\ screen = ScreenInit(sz)
    /\ term = TermInit(tty, settings)
    /\ log = LogInit
    /\ pc = "start"

Init ==
    /\ \E data \in DataFiles, sz \in Sizes, tty \in BOOLEAN,
          settings \in {"cooked", "cbreak"} :
           InitWith(data, sz, tty, settings)
    /\ keys = 0
    /\ script = <<>>
    /\ dec = DecInit(<<>>, FALSE)

\* the keys read_key can return that App tests for, and PAGE_UP for those
\* it tests nowhere (PAGE_UP, PAGE_DOWN, CTRL_D, CTRL_N, UNKNOWN)
KeyNames ==
    {"UP", "DOWN", "LEFT", "RIGHT", "HOME", "END", "PAGE_UP",
     "ENTER", "TAB", "ESCAPE", "BACKSPACE", "DELETE",
     "CTRL_C", "CTRL_S", "CTRL_Q"}

\* the characters the views test for, N, Q and Y for the upper-case letters
CommandChars ==
    {"j", "k", "h", "l", "n", "N", "e", "d", "/", "?", "q", "Q", "y", "Y"}
TextChars == {"a"}

Events ==
    {KeyEvent(k) : k \in KeyNames}
    \cup {CharEvent(c) : c \in CommandChars \cup TextChars \cup {"NBSP"}}

\* the bounds on what the user types: text is typed from TextChars, and
\* only while the buffer it goes to and the repository are below their bounds
Fed(ev) ==
    LET view == app.state
    IN  /\ view = "EDITOR" =>
              /\ is_printable(ev) =>
                     /\ ev.char \in TextChars
                     /\ Len(JoinNL(app.editor_content)) < MaxText
              /\ ev.key = "ENTER" => Len(JoinNL(app.editor_content)) < MaxText
        /\ view = "SEARCH" =>
              (is_printable(ev) =>
                   ev.char \in TextChars /\ Len(app.search_query) < MaxInput)
        /\ view \in {"INPUT_NOTEBOOK", "INPUT_NOTE_TITLE"} =>
              /\ is_printable(ev) =>
                     ev.char \in TextChars /\ Len(app.input_buffer) < MaxInput
              /\ (ev.key = "ENTER" /\ app.input_buffer # <<>>) =>
                     IF view = "INPUT_NOTE_TITLE"
                     THEN Len(repo.notes) < MaxNotes
                     ELSE Len(repo.notebooks) < MaxNotes

\* where App.run goes after a call of its loop body
AfterRender(w) == IF w.log.raised THEN "finally" ELSE "input"
AfterInput(w) ==
    IF w.log.raised THEN "finally"
    ELSE IF w.app.running THEN "render" ELSE "finally"

\* App.run up to its loop (app.py:98-103)
RunEnter ==
    /\ pc = "start"
    /\ Commit(run_enter(Begin("enter", NoEvent)))
    /\ pc' = "render"
    /\ UNCHANGED <<keys, script, dec>>

\* self._render() of the loop (app.py:104)
Render ==
    /\ pc = "render"
    /\ \E sz \in Sizes :
           LET w == render(Begin("render", NoEvent), sz, sz)
           IN  Commit(w) /\ pc' = AfterRender(w)
    /\ UNCHANGED <<keys, script, dec>>

\* a frame cut short by an exception
RenderRaise ==
    /\ pc = "render"
    /\ \E sz \in Sizes :
           LET w == render_cut(Begin("render", NoEvent), sz)
           IN  Commit(w) /\ pc' = AfterRender(w)
    /\ UNCHANGED <<keys, script, dec>>

\* self._handle_input() when read_key returns None (app.py:193-195)
Timeout ==
    /\ pc = "input"
    /\ Commit(Begin("input", NoEvent))
    /\ pc' = "render"
    /\ UNCHANGED <<keys, script, dec>>

\* self._handle_input() when read_key returns ev (app.py:105, 191-214)
Input(ev) ==
    /\ pc = "input"
    /\ LET w == handle_input(Begin("input", ev), ev)
       IN  Commit(w) /\ pc' = AfterInput(w)

HandleInput ==
    /\ keys < MaxKeys
    /\ \E ev \in Events : Fed(ev) /\ Input(ev)
    /\ keys' = keys + 1
    /\ UNCHANGED <<script, dec>>

\* an exception raised in the try block between two calls: an interrupt
\* signal, or an error of read_key
Interrupt ==
    /\ pc \in {"start", "render", "input"}
    /\ Commit(Raised(Begin("raise", NoEvent)))
    /\ pc' = "finally"
    /\ UNCHANGED <<keys, script, dec>>

\* the finally block of App.run (app.py:107-110)
Finally ==
    /\ pc = "finally"
    /\ LET w0 == Begin("finally", NoEvent)
       IN  Commit(run_finally([w0 EXCEPT !.log.raised = log.raised]))
    /\ pc' = "done"
    /\ UNCHANGED <<keys, script, dec>>

Next ==
    \/ RunEnter
    \/ Render
    \/ RenderRaise
    \/ Timeout
    \/ HandleInput
    \/ Interrupt
    \/ Finally

Spec == Init /\ [][Next]_vars

----------------------------------------------------------------------------
(* A session with a fixed sequence of key events *)

\* n, T, e, s, t, Enter, h, e, l, l, o, Escape
ScenarioKeys ==
    <<CharEvent("n"), CharEvent("T"), CharEvent("e"), CharEvent("s"),
      CharEvent("t"), KeyEvent("ENTER"), CharEvent("h"), CharEvent("e"),
      CharEvent("l"), CharEvent("l"), CharEvent("o"), KeyEvent("ESCAPE")>>

\* the program started without a data file
ScenarioInit ==
    /\ \E sz \in Sizes, tty \in BOOLEAN, settings \in {"cooked", "cbreak"} :
           InitWith(EmptyData, sz, tty, settings)
    /\ keys = 0
    /\ script = ScenarioKeys
    /\ dec = DecInit(<<>>, FALSE)

\* self._handle_input() when read_key returns the next key of the script
ScriptedInput ==
    /\ script # <<>>
    /\ Input(Head(script))
    /\ script' = Tail(script)
    /\ keys' = keys + 1
    /\ UNCHANGED dec

ScenarioNext ==
    \/ RunEnter
    \/ Render
    \/ Timeout
    \/ ScriptedInput

SpecScenario == ScenarioInit /\ [][ScenarioNext]_vars

----------------------------------------------------------------------------
(* The InputHandler alone, reading a given input stream *)

\* most turns of a read loop that are followed
MaxReads == 10
\* most characters after Escape whose arrival times are varied
MaxTimed == 3
\* longest run of unrecognised characters after Escape
MaxJunk == 8

\* arrival delays in ms: at once, within the inter-byte wait, within the
\* Escape wait only, within the timeout of read_key only
Gaps == {0, 5, 30, 70}

Timed(bytes, gaps) == [i \in 1..Len(bytes) |-> [ch |-> bytes[i], gap |-> gaps[i]]]
Quick(bytes) == [i \in 1..Len(bytes) |-> [ch |-> bytes[i], gap |-> 0]]

TableSeqs == {e[1] : e \in ESCAPE_SEQUENCES}

\* what may follow an Escape character: a sequence of the table, the start
\* of one, or one followed by a letter
EscBodies ==
    UNION {{SubSeq(s, 1, k) : k \in 0..Len(s)} : s \in TableSeqs}
    \cup {s \o <<"a">> : s \in {t \in TableSeqs : Len(t) < MaxTimed}}

\* first characters other than Escape
FirstBytes ==
    {"a", "N", "NUL", "ETX", "EOT", "BS", "TAB", "LF", "CR", "SO", "DC1",
     "DC3", "DEL", "NBSP"}

JunkRuns ==
    {[i \in 1..n |-> "["] \o tl : n \in 2..MaxJunk, tl \in {<<>>, <<"A">>}}

Streams ==
    {<<>>}
    \cup {Timed(<<c>>, g) : c \in FirstBytes, g \in [1..1 -> Gaps \cup {200}]}
    \cup UNION {{Timed(<<"ESC">> \o b, g) : g \in [1..(Len(b) + 1) -> Gaps]}
                    : b \in EscBodies}
    \cup {Quick(<<c, "a">>) : c \in FirstBytes}
    \cup {Quick(<<"ESC">> \o j) : j \in JunkRuns}
    \cup {Timed(<<"ESC">> \o j, [i \in 1..(Len(j) + 1) |-> 5]) : j \in JunkRuns}

DecoderInit ==
    /\ InitWith(EmptyData, <<80, 24>>, TRUE, "cooked")
    /\ keys = 0
    /\ script = <<>>
    /\ \E st \in Streams, eof \in BOOLEAN : dec = DecInit(st, eof)

\* a call of read_key with the run loop's timeout (app.py:193)
DecReadKey ==
    /\ dec.pc \in {"idle", "returned"}
    /\ dec' = read_key(dec, ReadTimeoutMs)
    /\ UNCHANGED <<app, repo, screen, term, log, pc, keys, script>>

\* _handle_escape_sequence up to its loop
DecEscapeWait ==
    /\ dec.pc = "esc"
    /\ dec' = escape_wait(dec)
    /\ UNCHANGED <<app, repo, screen, term, log, pc, keys, script>>

\* one turn of the loop of _handle_escape_sequence
DecEscapeLoop ==
    /\ dec.pc = "loop"
    /\ dec.reads < MaxReads
    /\ dec' = escape_loop(dec)
    /\ UNCHANGED <<app, repo, screen, term, log, pc, keys, script>>

DecoderNext ==
    \/ DecReadKey
    \/ DecEscapeWait
    \/ DecEscapeLoop

SpecDecoder == DecoderInit /\ [][DecoderNext]_vars

----------------------------------------------------------------------------
(* The Repository alone, under the calls of its interface *)

MaxCalls == 3
MaxStored == 3

\* the arguments the calls are made with
RepoNotebookIds == {DefaultId, "nb1", "nb2"}
RepoNames == {<<"W">>, <<"h">>}
RepoTitles == {<<"A">>, <<"a", "B">>}
RepoContents == {<<>>, <<"b">>}
RepoQueries == {<<>>, <<"a">>, <<"A">>, <<"b">>, <<"A", "b">>}

\* a Repository constructed on a data file (repository.py:32-43)
RepoInit ==
    /\ \E data \in DataFiles : InitWith(data, <<80, 24>>, TRUE, "cooked")
    /\ keys = 0
    /\ script = <<>>
    /\ dec = DecInit(<<>>, FALSE)

\* the world a call starts from, with its argument on record
Call(name, arg) == [Begin(name, NoEvent) EXCEPT !.log.arg = arg]

\* a call is over: its effects, and one more call made
Returned(w) ==
    /\ Commit(w)
    /\ keys' = keys + 1
    /\ UNCHANGED <<pc, script, dec>>

RepoLoad ==
    /\ keys < MaxCalls
    /\ Returned([Call("load", <<>>) EXCEPT !.repo = load(repo.disk)])

RepoCreateNotebook ==
    /\ keys < MaxCalls
    /\ Len(repo.notebooks) < MaxStored
    /\ \E name \in RepoNames :
           Returned(create_notebook(Call("create_notebook", name), name))

RepoUpdateNotebook ==
    /\ keys < MaxCalls
    /\ \E id \in RepoNotebookIds, name \in RepoNames :
           LET notebook == [id |-> id, name |-> name]
           IN  Returned(update_notebook(Call("update_notebook", notebook), notebook))

RepoDeleteNotebook ==
    /\ keys < MaxCalls
    /\ \E id \in RepoNotebookIds :
           Returned(delete_notebook(Call("delete_notebook", id), id))

RepoCreateNote ==
    /\ keys < MaxCalls
    /\ Len(repo.notes) < MaxStored
    /\ \E title \in RepoTitles, content \in RepoContents,
          id \in RepoNotebookIds :
           Returned(create_note(Call("create_note", <<title, content, id>>),
                                title, content, id))

\* update_note with a stored note whose content was changed
RepoUpdateNote ==
    /\ keys < MaxCalls
    /\ \E i \in 1..Len(repo.notes), content \in RepoContents :
           LET w == Call("update_note", <<repo.notes[i].id, content>>)
               upd == [n \in Range(repo.notes) |->
                          update_content(n, n.title, content, Now(repo))]
           IN  Returned(update_note(MutateNote(w, repo.notes[i].id, upd),
                                    repo.notes[i].id))

RepoDeleteNote ==
    /\ keys < MaxCalls
    /\ \E id \in 1..(MaxStored + 1) :
           Returned(delete_note(Call("delete_note", id), id))

RepoSearchNotes ==
    /\ keys < MaxCalls
    /\ \E query \in RepoQueries :
           Returned([Call("search_notes", query) EXCEPT
                        !.log.ret = search_notes(repo, query)])

RepoNext ==
    \/ RepoLoad
    \/ RepoCreateNotebook
    \/ RepoUpdateNotebook
    \/ RepoDeleteNotebook
    \/ RepoCreateNote
    \/ RepoUpdateNote
    \/ RepoDeleteNote
    \/ RepoSearchNotes

SpecRepo == RepoInit /\ [][RepoNext]_vars

----------------------------------------------------------------------------
(* The editor on a note of any content *)

MaxContent == 3
MaxEdits == 3

\* the contents of the note that is edited: every text of b's and newlines
\* up to MaxContent characters
EditorContents == UNION {[1..n -> {"b", "NL"}] : n \in 0..MaxContent}

\* the key events the editor tests for, one printable character to type
\* and one character that is not printable
EditorKeys ==
    {KeyEvent(k) : k \in {"UP", "DOWN", "LEFT", "RIGHT", "HOME", "END",
                          "ENTER", "BACKSPACE", "DELETE", "CTRL_S", "ESCAPE"}}
    \cup {CharEvent(c) : c \in TextChars \cup {"NBSP"}}

\* the program started on a data file that holds one note
EditorInit ==
    /\ \E content \in EditorContents, sz \in Sizes :
           InitWith([notebooks |-> <<notebook_to_dict(create_default)>>,
                     notes |-> <<note_to_dict(Note(1, <<"A">>, content, DefaultId, 1))>>],
                    sz, TRUE, "cooked")
    /\ keys = 0
    /\ script = <<>>
    /\ dec = DecInit(<<>>, FALSE)

\* e in the list view: the selected note is opened (app.py:258-260)
EditorOpen ==
    /\ app.state = "LIST"
    /\ Input(CharEvent("e"))
    /\ UNCHANGED <<keys, script, dec>>

\* a key event in the editor (app.py:283-319)
EditorKey ==
    /\ app.state = "EDITOR"
    /\ keys < MaxEdits
    /\ \E ev \in EditorKeys : Input(ev)
    /\ keys' = keys + 1
    /\ UNCHANGED <<script, dec>>

EditorNext ==
    \/ RunEnter
    \/ Render
    \/ EditorOpen
    \/ EditorKey

SpecEditor == EditorInit /\ [][EditorNext]_vars

----------------------------------------------------------------------------
(* The search view on a data file of three notes *)

MaxQuery == 2
MaxSearchKeys == 5

\* a data file whose notes match different queries by title or by content
SearchData ==
    [notebooks |-> <<notebook_to_dict(create_default)>>,
     notes |-> <<note_to_dict(Note(1, <<"A">>, <<>>, DefaultId, 1)),
                 note_to_dict(Note(2, <<"b">>, <<"a", "B", "NL", "b">>, DefaultId, 2)),
                 note_to_dict(Note(3, <<"B">>, <<>>, DefaultId, 3))>>]

\* the key events the search view tests for, LEFT for those it ignores,
\* two printable characters and one that is not printable
SearchKeys ==
    {KeyEvent(k) : k \in {"UP", "DOWN", "TAB", "ENTER", "ESCAPE",
                          "BACKSPACE", "LEFT"}}
    \cup {CharEvent(c) : c \in {"a", "B", "NBSP"}}

SearchInit ==
    /\ \E sz \in Sizes : InitWith(SearchData, sz, TRUE, "cooked")
    /\ keys = 0
    /\ script = <<>>
    /\ dec = DecInit(<<>>, FALSE)

\* / in the list view (app.py:268-272)
SearchOpen ==
    /\ app.state = "LIST"
    /\ Input(CharEvent("/"))
    /\ UNCHANGED <<keys, script, dec>>

\* a key event in the search view (app.py:321-351)
SearchKey ==
    /\ app.state = "SEARCH"
    /\ keys < MaxSearchKeys
    /\ \E ev \in SearchKeys :
           /\ is_printable(ev) => Len(app.search_query) < MaxQuery
           /\ Input(ev)
    /\ keys' = keys + 1
    /\ UNCHANGED <<script, dec>>

SearchNext ==
    \/ RunEnter
    \/ Render
    \/ SearchOpen
    \/ SearchKey

SpecSearch == SearchInit /\ [][SearchNext]_vars

----------------------------------------------------------------------------
(* The list view, its dialogs and the note title prompt on a data file of
   three notebooks *)

MaxListKeys == 7
MaxTitle == 1

\* a data file with three notes in the default notebook, two in a second
\* notebook and a third notebook without notes
ListData ==
    [notebooks |-> <<notebook_to_dict(create_default),
                     [id |-> "nb1", name |-> <<"W">>],
                     [id |-> "nb2", name |-> <<"X">>]>>,
     notes |-> <<note_to_dict(Note(1, <<"A">>, <<>>, DefaultId, 1)),
                 note_to_dict(Note(2, <<"a">>, <<"a">>, DefaultId, 2)),
                 note_to_dict(Note(3, <<"b">>, <<>>, DefaultId, 3)),
                 note_to_dict(Note(4, <<"a">>, <<"b">>, "nb1", 4)),
                 note_to_dict(Note(5, <<"B">>, <<>>, "nb1", 5))>>]

\* the key events of the list view that move the selection and the focus,
\* open the delete confirmation and the note title prompt, answer them,
\* and PAGE_UP and a for the keys the dialogs ignore
ListKeys ==
    {KeyEvent(k) : k \in {"DOWN", "UP", "TAB", "ENTER", "ESCAPE", "PAGE_UP"}}
    \cup {CharEvent(c) : c \in {"h", "d", "y", "Y", "n", "a"}}

ListInit ==
    /\ \E sz \in Sizes : InitWith(ListData, sz, TRUE, "cooked")
    /\ keys = 0
    /\ script = <<>>
    /\ dec = DecInit(<<>>, FALSE)

\* a key event in the list view, a dialog, the title prompt or the editor
\* (app.py:191-214); titles are typed up to MaxTitle characters
ListKey ==
    /\ app.state \in {"LIST", "CONFIRM_DELETE", "INPUT_NOTE_TITLE", "EDITOR"}
    /\ keys < MaxListKeys
    /\ \E ev \in ListKeys :
           /\ (app.state = "INPUT_NOTE_TITLE" /\ is_printable(ev)) =>
                  ev.char = "a" /\ Len(app.input_buffer) < MaxTitle
           /\ app.state = "EDITOR" => ev.key = "ESCAPE"
           /\ Input(ev)
    /\ keys' = keys + 1
    /\ UNCHANGED <<script, dec>>

ListNext ==
    \/ RunEnter
    \/ Render
    \/ ListKey

SpecList == ListInit /\ [][ListNext]_vars

----------------------------------------------------------------------------
(* The notebook name prompt.  The arm of App._handle_list_input that opens
   it (app.py:254-256) comes after the arm for n, which takes every N of
   the keyboard; the prompt is entered here by the assignments of that arm,
   and its handler is then driven through App._handle_input. *)

MaxPromptKeys == 5
MaxName == 2

\* the assignments of the arm for N (app.py:254-256), after
\* App._handle_input has cleared the status message (app.py:197)
PromptOpen ==
    /\ pc = "input"
    /\ app.state = "LIST"
    /\ LET w == Begin("input", CharEvent("N"))
       IN  Commit([w EXCEPT !.app.status_message = "",
                            !.app.input_buffer = <<>>,
                            !.app.state = "INPUT_NOTEBOOK"])
    /\ pc' = "render"
    /\ UNCHANGED <<keys, script, dec>>

\* a key event in the notebook name prompt (app.py:386-407): the keys it
\* tests for, TAB for those it ignores, and names of up to MaxName
\* characters
PromptKey ==
    /\ app.state = "INPUT_NOTEBOOK"
    /\ keys < MaxPromptKeys
    /\ \E ev \in {KeyEvent(k) : k \in {"ENTER", "ESCAPE", "BACKSPACE", "TAB"}}
                  \cup {CharEvent(c) : c \in {"a", "B", "NBSP"}} :
           /\ is_printable(ev) => Len(app.input_buffer) < MaxName
           /\ Input(ev)
    /\ keys' = keys + 1
    /\ UNCHANGED <<script, dec>>

PromptNext ==
    \/ RunEnter
    \/ Render
    \/ PromptOpen
    \/ PromptKey

SpecPrompt == ListInit /\ [][PromptNext]_vars

----------------------------------------------------------------------------
(* Properties *)

\* the notes of the data file with the given title
Persisted(title) ==
    {repo.disk.notes[i] : i \in {j \in 1..Len(repo.disk.notes) :
                                     repo.disk.notes[j].title = title}}

\* the notes shown in the notes panel
SelectedNotes ==
    LET notebooks == get_all_notebooks(repo)
    IN  get_notes_by_notebook(repo, notebooks[app.selected_notebook_idx + 1].id)

\* a key event ev is being handled in view v
Handling(v, ev) ==
    /\ pc = "input" /\ app.state = v
    /\ log'.step = "input" /\ log'.event = ev

\* the last step handled key event ev in view v
Handled(v, ev) == log.step = "input" /\ log.view = v /\ log.event = ev

\* C1: from an empty data set, once the keys n, T, e, s, t, Enter, h, e, l,
\* l, o, Escape have been handled, the status message is "Note saved", the
\* view is the list view, and the data file holds the note titled "Test"
\* with content "hello"
C1_ScenarioSavesHello ==
    (script = <<>> /\ keys = Len(ScenarioKeys)) =>
        /\ app.status_message = "Note saved"
        /\ app.state = "LIST"
        /\ \E n \in Persisted(<<"T", "e", "s", "t">>) :
               n.content = <<"h", "e", "l", "l", "o">>

\* C2: Enter in the note title prompt with a non-empty buffer creates one
\* note with the buffer as title in the selected notebook, clears the
\* buffer, and leaves the editor active on that note with the cursor at
\* (0, 0) and editor_modified false
C2_EnterOpensEditor ==
    [][Handling("INPUT_NOTE_TITLE", KeyEvent("ENTER")) /\ app.input_buffer # <<>>
          => /\ Len(repo'.notes) = Len(repo.notes) + 1
             /\ app'.input_buffer = <<>>
             /\ app'.state = "EDITOR"
             /\ HasNote(repo', app'.editing_note)
             /\ ~HasNote(repo, app'.editing_note)
             /\ get_note(repo', app'.editing_note).title = app.input_buffer
             /\ get_note(repo', app'.editing_note).notebook_id =
                    get_all_notebooks(repo)[app.selected_notebook_idx + 1].id
             /\ app'.cursor_line = 0 /\ app'.cursor_col = 0
             /\ ~app'.editor_modified]_vars

\* C3: in the list view the character N opens the notebook name prompt
\* with an empty buffer
C3_CapitalNOpensNotebookPrompt ==
    Handled("LIST", CharEvent("N")) =>
        app.state = "INPUT_NOTEBOOK" /\ app.input_buffer = <<>>

\* C4: the selected notebook index is a position of the notebook list, and
\* the selected note index is between 0 and max(0, k - 1), k the number of
\* notes of the selected notebook
C4_SelectionInRange ==
    /\ 0 <= app.selected_notebook_idx
    /\ app.selected_notebook_idx < Len(get_all_notebooks(repo))
    /\ 0 <= app.selected_note_idx
    /\ app.selected_note_idx <= Max(0, Len(SelectedNotes) - 1)

\* a note other than the only one of its notebook has just been deleted
C4_Witness ==
    /\ Handled("CONFIRM_DELETE", CharEvent("y"))
    /\ app.status_message = "Note deleted"
    /\ Len(SelectedNotes) = 1
    /\ app.selected_note_idx = 0

\* C5: while the editor is the active view, the buffer has at least one
\* line, the cursor line is a line of the buffer and the cursor column is
\* between 0 and the length of that line
C5_CursorInBuffer ==
    app.state = "EDITOR" =>
        /\ Len(app.editor_content) >= 1
        /\ 0 <= app.cursor_line
        /\ app.cursor_line < Len(app.editor_content)
        /\ 0 <= app.cursor_col
        /\ app.cursor_col <= Len(app.editor_content[app.cursor_line + 1])

\* the cursor has moved up to a line shorter than the one it left
C5_Witness ==
    /\ Handled("EDITOR", KeyEvent("UP"))
    /\ app.state = "EDITOR"
    /\ Len(app.editor_content) = 2
    /\ app.cursor_line = 0
    /\ Len(app.editor_content[1]) < Len(app.editor_content[2])

\* C6: Escape in the editor ends in the list view; with editor_modified
\* true the data file is written once, while the editor is still the view,
\* and then holds the edited note with the buffer's lines joined by
\* newlines; with editor_modified false the data file is not written
C6_EscapeSavesIfModified ==
    [][Handling("EDITOR", KeyEvent("ESCAPE"))
          => /\ app'.state = "LIST"
             /\ app.editor_modified =>
                    /\ log'.saves = <<"EDITOR">>
                    /\ \E i \in 1..Len(repo'.disk.notes) :
                           /\ repo'.disk.notes[i].id = app.editing_note
                           /\ repo'.disk.notes[i].content =
                                  JoinNL(app.editor_content)
             /\ ~app.editor_modified =>
                    log'.saves = <<>> /\ repo'.disk = repo.disk]_vars

\* Escape has left the editor and the edited text is in the data file
C6_Witness ==
    /\ Handled("EDITOR", KeyEvent("ESCAPE"))
    /\ log.saves = <<"EDITOR">>
    /\ app.state = "LIST"
    /\ \E i \in 1..Len(repo.disk.notes) :
           /\ repo.disk.notes[i].id = app.editing_note
           /\ repo.disk.notes[i].content = JoinNL(app.editor_content)
           /\ repo.disk.notes[i].content # <<>>

\* C7: a frame reaches the terminal as one write, the flush of end_frame,
\* in every view
C7_OneWritePerFrame ==
    (log.step = "render" /\ ~log.raised) =>
        Len(log.out) = 1 /\ log.out[1].via = "flush"

\* C8: when App.run has ended, the terminal has the settings it had when
\* the program started, not raw mode, and is not on the alternate screen
C8_TerminalRestored ==
    pc = "done" =>
        /\ term.settings = term.at_start
        /\ term.settings # "raw"
        /\ ~term.alt

\* the run ended by an exception on a terminal that was not in its usual
\* line mode
C8_Witness ==
    /\ pc = "done"
    /\ log.raised
    /\ term.isatty
    /\ term.at_start = "cbreak"

\* the characters the call of read_key under way has taken by read_char,
\* of those that were waiting in sys.stdin and in the stream when it began
Consumed == Len(dec.call_in) - Len(dec.buf) - Len(dec.stream)

\* C9: a call of read_key whose first character is Escape reads at most
\* the Escape and SeqLimit + 1 further characters, and does not raise
C9_EscapeReadsBounded ==
    (dec.call_in # <<>> /\ dec.call_in[1].ch = "ESC") =>
        dec.reads <= SeqLimit + 2 /\ dec.pc # "raised"

\* the characters i .. i + Len(seq) - 1 of the stream given to the call are
\* seq, each there within the inter-byte wait
Follows(seq) ==
    /\ Len(dec.call_in) >= 1 + Len(seq)
    /\ \A i \in 1..Len(seq) :
           /\ dec.call_in[i + 1].ch = seq[i]
           /\ dec.call_in[i + 1].gap <= InterByteMs

\* the call of read_key that has returned began with an Escape character
EscapeCallReturned ==
    /\ dec.pc = "returned"
    /\ dec.reads >= 1
    /\ dec.call_in # <<>>
    /\ dec.call_in[1].ch = "ESC"
    /\ dec.call_in[1].gap <= ReadTimeoutMs

\* C10: Escape with no character within the Escape wait decodes to ESCAPE
\* and consumes the Escape alone; Escape followed by a sequence of the
\* table, each character within the inter-byte wait, decodes to the key of
\* that sequence and consumes exactly the sequence
C10_EscapeDecoding ==
    EscapeCallReturned =>
        /\ (\/ Len(dec.call_in) = 1 /\ ~dec.eof
            \/ Len(dec.call_in) > 1 /\ dec.call_in[2].gap > EscTimeoutMs)
               => /\ dec.result = KeyEvent("ESCAPE")
                  /\ Consumed = 1
        /\ \A e \in ESCAPE_SEQUENCES :
               Follows(e[1])
                   => /\ dec.result = KeyEvent(e[2])
                      /\ Consumed = 1 + Len(e[1])

\* C11: a Ctrl+C key event ends the run loop in the step that handles it,
\* in whichever view it arrives, and never opens the quit confirmation
C11_CtrlCTerminates ==
    (log.step = "input" /\ log.event = KeyEvent("CTRL_C")) =>
        ~app.running /\ pc = "finally"

\* the three rules of leaving the program, for the keys that confirm the
\* quit (stop), that open the confirmation (open) and that cancel it (back)
QuitRules(stop, open, back) ==
    /\ (app.running /\ ~app'.running) =>
           \/ log'.step = "input" /\ log'.event = KeyEvent("CTRL_C")
           \/ \E ev \in stop : Handling("QUIT_CONFIRM", ev)
    /\ (app.state # "QUIT_CONFIRM" /\ app'.state = "QUIT_CONFIRM") =>
           \E ev \in open : Handling("LIST", ev)
    /\ \A ev \in back :
           Handling("QUIT_CONFIRM", ev) =>
               app'.state = "LIST" /\ app'.running /\ pc' = "render"

\* C12 as stated: the run loop is left only by Ctrl+C or by y in the quit
\* confirmation, the confirmation is opened only by q or Ctrl+Q in the list
\* view, and n or Escape in it return to the list view without terminating
C12_QuitOnlyByLowerCase ==
    [][QuitRules({CharEvent("y")},
                 {CharEvent("q"), KeyEvent("CTRL_Q")},
                 {CharEvent("n"), KeyEvent("ESCAPE")})]_vars

\* C12 with the letters compared without regard to case: the run loop is
\* left only by Ctrl+C or by y / Y in the quit confirmation, the
\* confirmation is opened only by q / Q or Ctrl+Q in the list view, and
\* n / N or Escape in it return to the list view without terminating
C12_QuitOnlyByConfirmation ==
    [][QuitRules({CharEvent("y"), CharEvent("Y")},
                 {CharEvent("q"), CharEvent("Q"), KeyEvent("CTRL_Q")},
                 {CharEvent("n"), CharEvent("N"), KeyEvent("ESCAPE")})]_vars

\* Y has ended the run loop from the quit confirmation
C12_Witness ==
    /\ Handled("QUIT_CONFIRM", CharEvent("Y"))
    /\ ~app.running
    /\ pc = "finally"

\* C13: in every reachable state the notebook list holds exactly one
\* notebook of id "default", whatever calls of load, create_notebook,
\* update_notebook and delete_notebook (and of the note operations) were made
C13_OneDefaultNotebook ==
    Cardinality({i \in 1..Len(repo.notebooks) :
                     repo.notebooks[i].id = DefaultId}) = 1

\* a load of a data file that holds no default notebook has been made
C13_Witness ==
    /\ log.step = "load"
    /\ \A i \in 1..Len(repo.disk.notebooks) :
           repo.disk.notebooks[i].id # DefaultId

\* the call of delete_notebook(id) that is being made
DeletingNotebook(id) ==
    log'.step = "delete_notebook" /\ log'.arg = id

\* C14: delete_notebook("default") returns False and leaves the notebook
\* list, every note (its notebook assignment included) and the data file as
\* they were; nothing is written
C14_DeleteDefaultRefused ==
    [][DeletingNotebook(DefaultId) =>
           /\ log'.ret = FALSE
           /\ repo'.notebooks = repo.notebooks
           /\ repo'.notes = repo.notes
           /\ repo'.disk = repo.disk
           /\ log'.saves = <<>>]_vars

\* delete_notebook("default") has returned False on a repository that holds
\* notes in the default notebook and in another one
C14_Witness ==
    /\ log.step = "delete_notebook"
    /\ log.arg = DefaultId
    /\ log.ret = FALSE
    /\ \E i, j \in 1..Len(repo.notes) :
           /\ repo.notes[i].notebook_id = DefaultId
           /\ repo.notes[j].notebook_id # DefaultId

\* C15: delete_notebook(id) with another id than "default" returns True,
\* leaves the other notebooks in the list and not that one, keeps every
\* note, gives the notes of that notebook to "default" and leaves every
\* other note with its notebook
C15_DeleteNotebookMovesNotes ==
    [][\A id \in RepoNotebookIds \ {DefaultId} :
           DeletingNotebook(id) =>
               LET Keep(nb) == nb.id # id
               IN  /\ log'.ret = TRUE
                   /\ repo'.notebooks = SelectSeq(repo.notebooks, Keep)
                   /\ \A i \in 1..Len(repo'.notebooks) :
                          repo'.notebooks[i].id # id
                   /\ Len(repo'.notes) = Len(repo.notes)
                   /\ \A i \in 1..Len(repo.notes) :
                          /\ repo'.notes[i].id = repo.notes[i].id
                          /\ repo'.notes[i].title = repo.notes[i].title
                          /\ repo'.notes[i].content = repo.notes[i].content
                          /\ repo'.notes[i].notebook_id =
                                 IF repo.notes[i].notebook_id = id
                                 THEN DefaultId
                                 ELSE repo.notes[i].notebook_id]_vars

\* the first call on the stored data file was delete_notebook("nb1"): the
\* note of nb1 is now the third note of the default notebook
C15_Witness ==
    /\ keys = 1
    /\ log.step = "delete_notebook"
    /\ log.arg = "nb1"
    /\ log.ret = TRUE
    /\ Len(repo.notes) = 3
    /\ \A i \in 1..Len(repo.notes) : repo.notes[i].notebook_id = DefaultId
    /\ \A i \in 1..Len(repo.notebooks) : repo.notebooks[i].id # "nb1"

\* q occurs in the text t when upper and lower case are not told apart:
\* some piece of t has the length of q and, place by place, its letters
SameLetter(c, d) == Lower(c) = Lower(d)
OccursIn(q, t) ==
    \E i \in 1..(Len(t) - Len(q) + 1) :
        \A k \in 1..Len(q) : SameLetter(t[i + k - 1], q[k])

\* C16: search_notes(q) returns, each once, exactly the stored notes whose
\* title or content holds q as a piece, upper and lower case not told
\* apart; for the empty q it returns the empty sequence
C16_SearchExact ==
    log.step = "search_notes" =>
        LET q == log.arg
            found == log.ret
            hits == {n \in Range(repo.notes) :
                         OccursIn(q, n.title) \/ OccursIn(q, n.content)}
        IN  /\ q = <<>> => found = <<>>
            /\ q # <<>> => /\ Range(found) = hits
                           /\ Len(found) = Cardinality(hits)

\* search_notes("Ab") has found a note by its title "aB", and not every
\* stored note
C16_Witness ==
    /\ log.step = "search_notes"
    /\ log.arg = <<"A", "b">>
    /\ \E i \in 1..Len(log.ret) : log.ret[i].title = <<"a", "B">>
    /\ Len(log.ret) < Len(repo.notes)

\* the place of the cursor in the text of the buffer: the characters of
\* the lines above it, their newlines, and the column
CursorOffset(a) ==
    Len(JoinNL(SubSeq(a.editor_content, 1, a.cursor_line + 1)))
        - Len(CurLine(a)) + a.cursor_col

\* C17: when e opens the editor the line buffer is the content of the note
\* cut at its newlines (one empty line for an empty note), and joining it by
\* newline gives the content back; when a printable character is typed, the
\* joined buffer is the former one with the character put in at the cursor,
\* and the cursor is one column further on the same line
C17_EditorRoundTrip ==
    [][/\ (Handling("LIST", CharEvent("e")) /\ app'.state = "EDITOR") =>
              LET content == get_note(repo, app'.editing_note).content
                  lines == app'.editor_content
              IN  /\ JoinNL(lines) = content
                  /\ \A i \in 1..Len(lines) : "NL" \notin Range(lines[i])
                  /\ Len(lines) = 1 + Cardinality({k \in 1..Len(content) :
                                                       content[k] = "NL"})
                  /\ content = <<>> => lines = << <<>> >>
       /\ \A c \in TextChars :
              Handling("EDITOR", CharEvent(c)) =>
                  LET old == JoinNL(app.editor_content)
                      at == CursorOffset(app)
                  IN  /\ JoinNL(app'.editor_content) =
                             SubSeq(old, 1, at) \o <<c>> \o SubSeq(old, at + 1, Len(old))
                      /\ app'.cursor_line = app.cursor_line
                      /\ app'.cursor_col = app.cursor_col + 1]_vars

\* a character has been typed inside a line that is not the first one
C17_Witness ==
    /\ Handled("EDITOR", CharEvent("a"))
    /\ app.cursor_line > 0
    /\ app.cursor_col > 1
    /\ app.cursor_col < Len(CurLine(app))

\* C18: Backspace at column 0 of a line i > 0 puts the concatenation of
\* the lines i-1 and i in the place of both, so that there is one line
\* less, leaves the cursor on line i-1 at the column that was the length of
\* that line, and marks the buffer modified; Backspace at line 0, column 0
\* changes neither the buffer, nor the cursor, nor the modified mark
C18_BackspaceJoins ==
    [][(Handling("EDITOR", KeyEvent("BACKSPACE")) /\ app.cursor_col = 0) =>
           LET lines == app.editor_content
               i == app.cursor_line
           IN  IF i > 0
               THEN /\ app'.editor_content =
                           SubSeq(lines, 1, i - 1)
                           \o <<lines[i] \o lines[i + 1]>>
                           \o SubSeq(lines, i + 2, Len(lines))
                    /\ Len(app'.editor_content) = Len(lines) - 1
                    /\ app'.cursor_line = i - 1
                    /\ app'.cursor_col = Len(lines[i])
                    /\ app'.editor_modified
               ELSE /\ app'.editor_content = lines
                    /\ app'.cursor_line = 0
                    /\ app'.cursor_col = 0
                    /\ app'.editor_modified = app.editor_modified]_vars

\* Backspace has joined the two lines of the stored content, both of them
\* with characters: the only newline is gone and the cursor is inside the
\* one line left
C18_Witness ==
    LET stored == repo.disk.notes[1].content
    IN  /\ Handled("EDITOR", KeyEvent("BACKSPACE"))
        /\ app.editor_modified
        /\ Cardinality({k \in 1..Len(stored) : stored[k] = "NL"}) = 1
        /\ Len(app.editor_content) = 1
        /\ Len(CurLine(app)) = Len(stored) - 1
        /\ app.cursor_col > 0
        /\ app.cursor_col < Len(CurLine(app))

\* what save() would write for the notebooks and notes now in memory
InMemoryData ==
    [notebooks |-> [i \in 1..Len(repo.notebooks) |->
                        notebook_to_dict(repo.notebooks[i])],
     notes |-> [i \in 1..Len(repo.notes) |-> note_to_dict(repo.notes[i])]]

\* C19: after each rendered frame and each handled key event, the data
\* file holds the notebooks and notes that the Repository holds in memory
C19_DiskEqualsMemory ==
    (pc \in {"render", "input"} /\ log.step \in {"render", "input"}) =>
        repo.disk = InMemoryData

\* the content rows render_editor draws on a terminal of h lines
\* (renderer.py:279-292)
VisibleHeight(h) == h - 6 - 2

\* C20: whenever the editor is the active view, scroll_offset >= 0 and
\* scroll_offset <= cursor_line <= scroll_offset + visibleHeight - 1, for
\* the rows the editor draws at the height of the terminal
C20_CursorInWindow ==
    (app.state = "EDITOR" /\ pc \in {"render", "input"}) =>
        /\ app.scroll_offset >= 0
        /\ app.scroll_offset <= app.cursor_line
        /\ app.cursor_line <= app.scroll_offset + VisibleHeight(screen.height) - 1

\* the notes search_notes returns for the query, as the App holds them
SearchResultOf(r, query) ==
    LET found == search_notes(r, query)
    IN  [i \in 1..Len(found) |-> found[i].id]

\* an edit of the query: a printable character, or Backspace on a query
\* that is not empty
EditsQuery(ev) ==
    /\ Handling("SEARCH", ev)
    /\ is_printable(ev) \/ (ev.key = "BACKSPACE" /\ app.search_query # <<>>)

\* C21: while the search view is active, search_results is what the
\* Repository finds for search_query, and nothing for the empty query;
\* every edit of the query by a printable character or Backspace puts the
\* selection at 0; / in the list view opens the search view with an empty
\* query, no results and the selection at 0
C21_SearchResultsCurrent ==
    [][/\ app'.state = "SEARCH" =>
              /\ app'.search_results = SearchResultOf(repo', app'.search_query)
              /\ app'.search_query = <<>> => app'.search_results = <<>>
       /\ \A ev \in SearchKeys :
              EditsQuery(ev) =>
                  /\ app'.search_query # app.search_query
                  /\ app'.search_selected_idx = 0
       /\ Handling("LIST", CharEvent("/")) =>
              /\ app'.state = "SEARCH"
              /\ app'.search_query = <<>>
              /\ app'.search_results = <<>>
              /\ app'.search_selected_idx = 0]_vars

\* a second character has narrowed the results to one note, found by its
\* content, after the selection had been moved off the first result
C21_Witness ==
    /\ Handled("SEARCH", CharEvent("B"))
    /\ app.state = "SEARCH"
    /\ app.search_query = <<"a", "B">>
    /\ Len(app.search_results) = 1
    /\ app.search_selected_idx = 0
    /\ keys >= 3

\* the content last written to the data file for the note being edited
PersistedContent ==
    LET i == CHOOSE i \in 1..Len(repo.disk.notes) :
                 repo.disk.notes[i].id = app.editing_note
    IN  repo.disk.notes[i].content

\* C22: in the editor, editor_modified is true exactly when the line
\* buffer joined by newline differs from the content last persisted for the
\* note being edited
C22_ModifiedIffDiffers ==
    (app.state = "EDITOR" /\ pc \in {"render", "input"}) =>
        (app.editor_modified <=> JoinNL(app.editor_content) # PersistedContent)

\* C23: editing_note is held only while the editor is the active view: it
\* is None in every other view, and the editor is never active without it
C23_EditingNoteOnlyInEditor ==
    /\ app.state # "EDITOR" => app.editing_note = 0
    /\ app.state = "EDITOR" => app.editing_note # 0

\* C24: a call of read_key whose first character is Escape takes at most 6
\* further characters from the stream: the seventh after the Escape is
\* left for the next call
C24_SixAfterEscape ==
    (dec.call_in # <<>> /\ dec.call_in[1].ch = "ESC") => Consumed - 1 <= 6

\* the keys of the control characters, by their code
ControlKeys ==
    {<<3, "CTRL_C">>, <<4, "CTRL_D">>, <<9, "TAB">>, <<10, "ENTER">>,
     <<13, "ENTER">>, <<14, "CTRL_N">>, <<17, "CTRL_Q">>, <<19, "CTRL_S">>,
     <<8, "BACKSPACE">>, <<127, "BACKSPACE">>}

\* the call of read_key that has returned read a first character other
\* than Escape
PlainCallReturned ==
    /\ dec.pc = "returned"
    /\ dec.reads >= 1
    /\ dec.call_in # <<>>
    /\ dec.call_in[1].ch # "ESC"
    /\ dec.call_in[1].gap <= ReadTimeoutMs

\* C25: a first character other than Escape gives the key of its code for
\* the codes 3, 4, 9, 10, 13, 14, 17, 19, 8 and 127, UNKNOWN for every
\* other code below 32, and for every other character the character event
\* that carries it; the call takes that one character from the stream
C25_FirstByteDecoding ==
    PlainCallReturned =>
        LET c == dec.call_in[1].ch
            named == {e \in ControlKeys : e[1] = Ord(c)}
        IN  /\ \A e \in named : dec.result = KeyEvent(e[2])
            /\ (named = {} /\ Ord(c) < 32) => dec.result = KeyEvent("UNKNOWN")
            /\ (named = {} /\ Ord(c) >= 32) => dec.result = CharEvent(c)
            /\ Consumed = 1

\* a carriage return followed at once by a letter has given ENTER, and the
\* letter has not been taken by the call
C25_Witness ==
    /\ PlainCallReturned
    /\ dec.call_in[1].ch = "CR"
    /\ dec.result = KeyEvent("ENTER")
    /\ Len(dec.call_in) = 2
    /\ Len(dec.buf) + Len(dec.stream) = 1

\* the status message after the cycle is empty, or was set in the cycle:
\* every message is set together with a write of the data file
FreshStatus == app'.status_message = "" \/ log'.saves # <<>>

\* C26 as stated: after every input-handling cycle, also one in which
\* read_key timed out, the status message is empty or was set in that cycle
C26_StatusClearedEveryCycle ==
    [][log'.step = "input" => FreshStatus]_vars

\* C26 for the cycles in which a key event was read: after such a cycle the
\* status message is empty or was set in that cycle; a cycle in which
\* read_key timed out leaves the status message as it was
C26_StatusClearedOnKey ==
    [][log'.step = "input" =>
           IF log'.event # NoEvent
           THEN FreshStatus
           ELSE app'.status_message = app.status_message]_vars

\* a cycle without a key has left the message of the last save in place
C26_Witness ==
    /\ log.step = "input"
    /\ log.event = NoEvent
    /\ app.status_message = "Note saved"

\* the views that show the terminal cursor at the place of the edit
CursorViews == {"EDITOR", "INPUT_NOTEBOOK", "INPUT_NOTE_TITLE"}

\* C27: after each rendered frame the terminal cursor is visible exactly
\* when the active view is the editor or one of the two input prompts
C27_CursorVisibleInEditViews ==
    (pc = "input" /\ log.step = "render") =>
        (term.cursor <=> app.state \in CursorViews)

\* a frame of the list view has been rendered after the editor was left:
\* the cursor the editor showed is hidden
C27_Witness ==
    /\ pc = "input"
    /\ log.step = "render"
    /\ app.state = "LIST"
    /\ app.editing_note # 0
    /\ ~term.cursor

\* C28: in the search view with n > 0 results, Down and Tab select the
\* next result and the first after the last, Up selects the one before and
\* the last before the first; with no results these keys change nothing;
\* in every state 0 <= search_selected_idx < max(1, n)
C28_SearchSelectionCycles ==
    [][LET n == Len(app.search_results)
           i == app.search_selected_idx
       IN  /\ \A k \in {"DOWN", "TAB", "UP"} :
                  Handling("SEARCH", KeyEvent(k)) =>
                      /\ n > 0 /\ k # "UP" =>
                             app'.search_selected_idx =
                                 IF i = n - 1 THEN 0 ELSE i + 1
                      /\ n > 0 /\ k = "UP" =>
                             app'.search_selected_idx =
                                 IF i = 0 THEN n - 1 ELSE i - 1
                      /\ n = 0 => app' = [app EXCEPT !.status_message = ""]
                      /\ app'.search_results = app.search_results
                      /\ app'.state = "SEARCH"
           /\ app'.search_selected_idx >= 0
           /\ app'.search_selected_idx < Max(1, Len(app'.search_results))]_vars

\* the first key found several notes and Up, the second key, has gone from
\* the first result to the last
C28_Witness ==
    /\ Handled("SEARCH", KeyEvent("UP"))
    /\ keys = 2
    /\ Len(app.search_results) >= 2
    /\ app.search_selected_idx = Len(app.search_results) - 1

\* C29: in the search view, Enter with results opens the selected result
\* in the editor, with the lines of its content as the buffer, the cursor at
\* line 0, column 0 and editor_modified false; Enter without results
\* changes nothing; Escape returns to the list view
C29_SearchEnterOpens ==
    [][/\ Handling("SEARCH", KeyEvent("ENTER")) =>
              IF app.search_results # <<>>
              THEN LET id == app.search_results[app.search_selected_idx + 1]
                       content == get_note(repo, id).content
                       lines == app'.editor_content
                   IN  /\ app'.state = "EDITOR"
                       /\ app'.editing_note = id
                       /\ JoinNL(lines) = content
                       /\ \A i \in 1..Len(lines) : "NL" \notin Range(lines[i])
                       /\ app'.cursor_line = 0
                       /\ app'.cursor_col = 0
                       /\ ~app'.editor_modified
                       /\ repo' = repo
              ELSE app' = [app EXCEPT !.status_message = ""] /\ repo' = repo
       /\ Handling("SEARCH", KeyEvent("ESCAPE")) => app'.state = "LIST"]_vars

\* Enter has opened the second result, a note of two lines
C29_Witness ==
    /\ Handled("SEARCH", KeyEvent("ENTER"))
    /\ app.state = "EDITOR"
    /\ app.search_selected_idx = 1
    /\ app.editing_note = app.search_results[2]
    /\ Len(app.editor_content) = 2

Untimed(n) ==
    [id |-> n.id, title |-> n.title, content |-> n.content,
     notebook_id |-> n.notebook_id]

\* the ids of the notes, most recently updated first
IdsByRecency(notes) ==
    LET sorted == SortedByUpdatedDesc(notes)
    IN  [i \in 1..Len(sorted) |-> sorted[i].id]

\* C31: in the delete confirmation with the focus on the notes panel, y
\* removes the note at selected_note_idx of the selected notebook's list
\* and no other (one note fewer, every other note and every notebook as it
\* was, in memory and in the data file), leaves selected_note_idx within the
\* shortened list and makes the list view the active view
C31_DeleteSelectedNote ==
    [][(Handling("CONFIRM_DELETE", CharEvent("y")) /\ app.focus_panel = "notes") =>
           /\ InRange(SelectedNotes, app.selected_note_idx)
           /\ LET target == SelectedNotes[app.selected_note_idx + 1]
                  Keep(n) == n.id # target.id
                  rest == SelectSeq(repo.notes, Keep)
                  shown == get_notes_by_notebook(repo', target.notebook_id)
              IN  /\ Len(repo'.notes) = Len(repo.notes) - 1
                  /\ Len(rest) = Len(repo'.notes)
                  /\ \A i \in 1..Len(rest) :
                         Untimed(repo'.notes[i]) = Untimed(rest[i])
                  /\ IdsByRecency(repo'.notes) = IdsByRecency(rest)
                  /\ repo'.notebooks = repo.notebooks
                  /\ repo'.disk.notebooks = repo.disk.notebooks
                  /\ Len(repo'.disk.notes) = Len(rest)
                  /\ \A i \in 1..Len(rest) :
                         Untimed(repo'.disk.notes[i]) = Untimed(rest[i])
                  /\ Len(shown) = Len(SelectedNotes) - 1
                  /\ 0 <= app'.selected_note_idx
                  /\ app'.selected_note_idx <= Max(0, Len(shown) - 1)
                  /\ app'.selected_notebook_idx = app.selected_notebook_idx
                  /\ app'.state = "LIST"]_vars

\* the last of the three notes of a notebook has been deleted
C31_Witness ==
    /\ Handled("CONFIRM_DELETE", CharEvent("y"))
    /\ app.status_message = "Note deleted"
    /\ app.focus_panel = "notes"
    /\ app.selected_note_idx = 1
    /\ Len(SelectedNotes) = 2
    /\ Len(repo.disk.notes) = 4

\* C32: in the delete confirmation, n or Escape makes the list view the
\* active view and changes nothing else: the notebooks, the notes and the
\* data file, the selected notebook, the selected note and the focus panel
\* are as before, and nothing is written
C32_DeleteCancelled ==
    [][\A ev \in {CharEvent("n"), KeyEvent("ESCAPE")} :
           Handling("CONFIRM_DELETE", ev) =>
               /\ app'.state = "LIST"
               /\ repo' = repo
               /\ log'.saves = <<>>
               /\ app'.selected_notebook_idx = app.selected_notebook_idx
               /\ app'.selected_note_idx = app.selected_note_idx
               /\ app'.focus_panel = app.focus_panel
               /\ app' = [app EXCEPT !.state = "LIST", !.status_message = ""]]_vars

\* the deletion of the second note of a notebook has been cancelled
C32_Witness ==
    /\ Handled("CONFIRM_DELETE", CharEvent("n"))
    /\ app.state = "LIST"
    /\ app.focus_panel = "notes"
    /\ app.selected_note_idx = 1
    /\ Len(repo.disk.notes) = 5

\* C33: while the delete confirmation is the active view, either the focus
\* is on the notes panel and the selected notebook has a note, or the focus
\* is on the notebooks panel and the selected notebook is not the default
\* notebook
C33_DeleteTargetExists ==
    app.state = "CONFIRM_DELETE" =>
        /\ InRange(get_all_notebooks(repo), app.selected_notebook_idx)
        /\ \/ /\ app.focus_panel = "notes"
              /\ SelectedNotes # <<>>
              /\ InRange(SelectedNotes, app.selected_note_idx)
           \/ /\ app.focus_panel = "notebooks"
              /\ get_all_notebooks(repo)[app.selected_notebook_idx + 1].id # DefaultId

\* the delete confirmation is open for a notebook without notes
C33_Witness ==
    /\ app.state = "CONFIRM_DELETE"
    /\ app.focus_panel = "notebooks"
    /\ app.selected_notebook_idx = 2
    /\ SelectedNotes = <<>>

\* C34: in the notebook name prompt, Enter with a non-empty buffer appends
\* one notebook named by the buffer, with an id no other notebook has, to
\* the notebooks in memory and in the data file, and Enter with an empty
\* buffer leaves the Repository as it was; both empty the buffer and make
\* the list view the active view.  Escape empties the buffer and makes the
\* list view the active view with the Repository as it was.
C34_NotebookPrompt ==
    [][/\ Handling("INPUT_NOTEBOOK", KeyEvent("ENTER")) =>
              /\ IF app.input_buffer # <<>>
                 THEN LET n == Len(repo.notebooks)
                          created == repo'.notebooks[n + 1]
                      IN  /\ Len(repo'.notebooks) = n + 1
                          /\ SubSeq(repo'.notebooks, 1, n) = repo.notebooks
                          /\ created.name = app.input_buffer
                          /\ \A i \in 1..n : repo.notebooks[i].id # created.id
                          /\ repo'.notes = repo.notes
                          /\ repo'.disk = InMemoryData'
                          /\ Len(log'.saves) = 1
                 ELSE repo' = repo /\ log'.saves = <<>>
              /\ app'.input_buffer = <<>>
              /\ app'.state = "LIST"
       /\ Handling("INPUT_NOTEBOOK", KeyEvent("ESCAPE")) =>
              /\ repo' = repo /\ log'.saves = <<>>
              /\ app'.input_buffer = <<>>
              /\ app'.state = "LIST"]_vars

\* Enter has created a notebook with a name of two characters
C34_Witness ==
    /\ Handled("INPUT_NOTEBOOK", KeyEvent("ENTER"))
    /\ app.state = "LIST"
    /\ app.input_buffer = <<>>
    /\ Len(repo.disk.notebooks) = 4
    /\ repo.disk.notebooks[4].name = <<"a", "B">>

\* the views other than the list view
OtherViews ==
    {"EDITOR", "SEARCH", "HELP", "CONFIRM_DELETE", "QUIT_CONFIRM",
     "INPUT_NOTEBOOK", "INPUT_NOTE_TITLE"}

\* C35: an Escape key event handled in a view other than the list view
\* makes the list view the active view in that step; an Escape key event
\* handled in the list view leaves the App as it was but for the status
\* message, which is empty afterwards, and leaves the Repository as it was
C35_EscapeToList ==
    [][/\ \A v \in OtherViews :
              Handling(v, KeyEvent("ESCAPE")) => app'.state = "LIST"
       /\ Handling("LIST", KeyEvent("ESCAPE")) =>
              /\ app' = [app EXCEPT !.status_message = ""]
              /\ repo' = repo]_vars

\* Escape has closed the help view
C35_Witness ==
    /\ Handled("HELP", KeyEvent("ESCAPE"))
    /\ app.state = "LIST"
    /\ pc = "render"

NotebookIds(notebooks) == {notebooks[i].id : i \in 1..Len(notebooks)}

\* C37: the notebook id of every note of the Repository is the id of a
\* notebook of its notebook list (the data files loaded here have this
\* property)
C37_NotesHaveNotebook ==
    \A i \in 1..Len(repo.notes) :
        repo.notes[i].notebook_id \in NotebookIds(repo.notebooks)

\* a notebook with notes has been deleted and a note has then been created
C37_Witness ==
    /\ Handled("INPUT_NOTE_TITLE", KeyEvent("ENTER"))
    /\ Len(repo.notebooks) = 2
    /\ Len(repo.notes) = 6
    /\ \E i \in 1..Len(repo.notes) :
           repo.notes[i].id = 4 /\ repo.notes[i].notebook_id = DefaultId

C39_CursorShownAtExit ==
    pc = "done" =>
        /\ term.cursor
        /\ \A i \in 1..Len(screen.buffer) : screen.buffer[i].op # "show_cursor"

\* C40: every cursor positioning written to the terminal, in a frame's
\* flush or directly by a dialog, has a column of at least 1 and a row of
\* at least 1
C40_PositionsOneIndexed ==
    \A i \in 1..Len(log.out) :
        log.out[i].min_x >= 1 /\ log.out[i].min_y >= 1

====
